---- MODULE Spec2Model ----
(***************************************************************************)
(* A model of the crawl pipeline of AI-LLM-Schema-Generator                *)
(* (src/schema_crawler.py): the frontier loop of crawl(), its domain        *)
(* scoping, and the prompt assembly / size-limit retry controller that     *)
(* talks to the external content-understanding service.                    *)
(***************************************************************************)
EXTENDS Integers, Sequences, FiniteSets, TLC

VARIABLES
    site,             \* what the run talks to: the site's URLs and page contents,
                      \* and the outcomes the service's calls can have
    api_key,          \* crawl(api_key): TRUE when a key was resolved
    max_pages,        \* crawl(max_pages)
    allow_subdomains, \* crawl(allow_subdomains)
    skip_llm,         \* crawl(skip_llm)
    no_truncate,      \* crawl(no_truncate)
    use_vision,       \* crawl(use_vision)
    sitemap_url,      \* crawl(sitemap_url): NoUrl when none is given
    rate_limit,       \* crawl(rate_limit), in units of the default 0.5 s
    dump_prompts,     \* crawl(dump_prompts)
    seed_urls,        \* seed_urls after sitemap resolution / base-URL fallback
    queue,            \* queue: deque[str]
    visited,          \* visited: Set[str]
    count,            \* count of completed pages
    manifest,         \* manifest: path key -> schema
    index_entries,    \* index_entries: the completed pages, in order
    pc,               \* position of the run inside crawl()
    url,              \* the URL of the current loop iteration
    text,             \* extracted text of the current page
    outline,          \* structured outline of the current page
    screenshot_b64,   \* TRUE when a screenshot was captured for the page
    user_parts,       \* the parts list the first user prompt was joined from
    messages,         \* the request currently placed in `messages`
    retry_count,      \* retry_count of the retry loop
    current_text,     \* current_text of the retry loop
    current_outline,  \* current_outline of the retry loop
    page_schema,      \* page_schema of the current page
    disk,             \* the manifest file on storage
    sitemap_requests, \* history: the HTTP requests of sitemap resolution, in order
    http_log,         \* history: every HTTP request of the run, its outcome, and
                      \* whether time.sleep(rate_limit) followed it
    fetched,          \* history: URLs for which a page fetch was issued, in order
    sent,             \* history: the service calls made for the current page
    dist,             \* history: link distance from the seed set, per URL
    prompts,          \* the files of prompts_dir: slug -> what was written
    normalize_call,   \* a call of normalize_url and of normalize_url on its result
    outline_call,     \* a call of build_structured_outline
    truncate_call,    \* a smart truncation of a page text
    seeding,          \* the seeding and the link discovery of a run, on URL texts
    progress_callback, \* the module global _progress_callback
    runs,             \* the crawl() calls of the job threads
    delivered,        \* history: the progress messages the callbacks received
    crawl_parameters, \* the parameter names of the crawl() that app.py imported
    jobs,             \* app.py's jobs dict: job id -> job record
    job_threads,      \* the run_crawl_job thread of each job: where it is
    stream,           \* a /crawl/stream request: its thread, queue and generator
    response,         \* the last HTTP response of an endpoint
    calls             \* history: the crawl() calls the endpoints made

config == <<site, api_key, max_pages, allow_subdomains, skip_llm, no_truncate, use_vision,
            sitemap_url, rate_limit, dump_prompts, seed_urls>>
frontier == <<queue, visited, count, manifest, index_entries, disk,
              sitemap_requests, http_log, fetched, dist, prompts>>
pagevars == <<url, text, outline, screenshot_b64, user_parts, messages,
              retry_count, current_text, current_outline, page_schema, sent>>
purevars == <<normalize_call, outline_call, truncate_call, seeding>>
jobvars == <<progress_callback, runs, delivered>>
appvars == <<crawl_parameters, jobs, job_threads, stream, response, calls>>
others == <<purevars, jobvars, appvars>>
vars == <<config, frontier, pagevars, pc, others>>

----------------------------------------------------------------------------
(* Bounds of the model *)

MaxPages == 3       \* max_pages ranges over 0..MaxPages
MaxSeeds == 2       \* at most this many seed URLs
MaxLinks == 2       \* at most this many links on a page

----------------------------------------------------------------------------
(* URLs: a host (its dot-separated labels) and a path (its pieces, in      *)
(* order: "/" for a slash, a name for a segment; <<>> is the empty path)    *)

HostBase == <<"example", "com">>
HostSub  == <<"a", "example", "com">>
HostEvil == <<"evil", "org">>

Url(h, p) == [host |-> h, path |-> p]

base_url == Url(HostBase, <<"/">>)
origin == base_url
origin_host == origin.host

SiteUrls == {Url(HostBase, <<"/">>), Url(HostSub, <<"/", "x">>), Url(HostEvil, <<"/">>)}

\* str.endswith("." + suffix) on hostnames, label by label
EndsWithDot(h, suffix) ==
    /\ Len(h) > Len(suffix)
    /\ SubSeq(h, Len(h) - Len(suffix) + 1, Len(h)) = suffix

same_registrable_domain(a, b) ==
    \/ a.host = b.host
    \/ EndsWithDot(a.host, b.host)

SeqsUpTo(S, n) == UNION {[1..k -> S] : k \in 0..n}

Min(a, b) == IF a < b THEN a ELSE b

RECURSIVE SumLen(_)
SumLen(s) == IF s = <<>> THEN 0 ELSE Head(s) + SumLen(Tail(s))

\* len("https://" + hostname + path) of a model URL
UrlLen(u) ==
    LET labels == [i \in 1..Len(u.host) |-> Len(u.host[i])]
        pieces == [i \in 1..Len(u.path) |-> Len(u.path[i])]
    IN 8 + SumLen(labels) + (Len(u.host) - 1) + SumLen(pieces)

----------------------------------------------------------------------------
(* Page contents.  A page is described by what the pipeline measures of it: *)
(*   len    len(text) as returned by extract_visible_text_full             *)
(*   faq    the indices text_lower.find(marker) of the FAQ markers found   *)
(*   nsec   len(outline["sections"])                                       *)
(*   seclen the length of every section's text                             *)
(*   tlen   the length of the page title (the page has a <title>)          *)

SmallLen == 3        \* text lengths 0..SmallLen are all modelled
LenStep == 10000     \* ... and the multiples of LenStep
LenSteps == 9        \* ... up to LenSteps * LenStep
SmallSec == 3        \* section counts 0..SmallSec are all modelled
SecStep == 8         \* ... and the multiples of SecStep
SecSteps == 5        \* ... up to SecSteps * SecStep
SecTextLen == 400    \* the text length of a section of a modelled page
TitleLen == 1        \* the title length of a modelled page

TextCap == 2500000   \* extract_visible_text_full: text[:2500000]

TextLens == (0..SmallLen) \cup {k * LenStep : k \in 1..LenSteps} \cup {TextCap}
SecCounts == (0..SmallSec) \cup {k * SecStep : k \in 1..SecSteps}
FaqSpots == {100, 45000, 59800}

AllPages == {pg \in [len : TextLens, faq : SUBSET FaqSpots, nsec : SecCounts,
                     seclen : {SecTextLen}, tlen : {TitleLen}] :
                \A i \in pg.faq : i + 3 <= pg.len}

SmallPages == {[len |-> 1200, faq |-> {}, nsec |-> 3, seclen |-> SecTextLen,
                tlen |-> TitleLen]}

----------------------------------------------------------------------------
(* Smart truncation of the page text (crawl, "Smart truncation") *)

MaxCharsNoTruncate == 80000
MaxCharsTruncate == 60000
MaxSectionsTruncate == 30
FaqKeepChars == 40000
FaqReserve == 10000
FaqWindow == 500
FaqSectionLimit == 5000
FaqJoinerLen == 36      \* len("\n\n[FAQ Content from later in page]\n\n")

max_chars_for_text == IF no_truncate THEN MaxCharsNoTruncate ELSE MaxCharsTruncate

FaqWindowLen(i, pg) == Min(i + FaqWindow, pg.len) - i

\* the summed length of the first k windows of S, in index order
RECURSIVE SumFirst(_, _, _)
SumFirst(S, k, pg) ==
    IF S = {} \/ k <= 0 THEN 0
    ELSE LET i == CHOOSE x \in S : \A y \in S : x <= y
         IN FaqWindowLen(i, pg) + SumFirst(S \ {i}, k - 1, pg)

TextForLlmWhole(pg) == pg.len

\* len(text_for_llm)
TextForLlm(pg) ==
    IF pg.len > max_chars_for_text /\ ~no_truncate
    THEN IF pg.faq # {}
         THEN LET keep_chars == Min(FaqKeepChars, max_chars_for_text - FaqReserve)
                  text_start == Min(keep_chars, pg.len)
                  faq_content == {i \in pg.faq : i > keep_chars
                                     /\ FaqWindowLen(i, pg) < FaqSectionLimit}
                  remaining_chars == max_chars_for_text - text_start
                  kept == Min(Cardinality(faq_content), remaining_chars \div FaqWindow)
                  faq_text == IF kept = 0 THEN 0
                              ELSE SumFirst(faq_content, kept, pg) + 2 * (kept - 1)
              IN IF faq_content # {} /\ text_start + faq_text <= max_chars_for_text
                 THEN text_start + FaqJoinerLen + faq_text
                 ELSE text_start
         ELSE Min(pg.len, max_chars_for_text)
    ELSE pg.len

\* len(outline_for_llm["sections"])
OutlineForLlm(pg) ==
    IF pg.nsec > 0 /\ ~no_truncate THEN Min(pg.nsec, MaxSectionsTruncate) ELSE pg.nsec

----------------------------------------------------------------------------
(* The user prompt: a list of parts joined by "\n".  A part is its kind,   *)
(* its length in characters and, for a text or outline part, the size of   *)
(* the view it carries (characters of text, number of sections).           *)

Part(k, l, n) == [kind |-> k, len |-> l, n |-> n]

RECURSIVE PartsLen(_)
PartsLen(ps) == IF ps = <<>> THEN 0 ELSE Head(ps).len + PartsLen(Tail(ps))

\* len("\n".join(parts))
JoinLen(ps) == IF ps = <<>> THEN 0 ELSE PartsLen(ps) + (Len(ps) - 1)

RECURSIVE Digits(_)
Digits(n) == IF n < 10 THEN 1 ELSE 1 + Digits(n \div 10)

\* len(f"{n:,}")
CommaLen(n) == Digits(n) + ((Digits(n) - 1) \div 3)

OutlineBaseLen == 71       \* the outline JSON without title text and sections
SectionJsonLen == 70       \* one section's JSON around its text
\* len(json.dumps(outline, ensure_ascii=False, indent=2)), n sections kept
OutlineJsonLen(o, n) ==
    OutlineBaseLen + o.tlen + (IF n = 0 THEN 0 ELSE 2 + n * (SectionJsonLen + o.seclen))

HintLenHome == 81
HintLenAbout == 82
HintLenDefault == 103
\* the "URL Analysis Hint" line of infer_page_type_from_url, for the paths of
\* the model: "/about" in path.lower(), the home page, any other path
HintLen(u) ==
    IF \E i \in 1..(Len(u.path) - 1) :
            u.path[i] = "/" /\ u.path[i + 1] \in {"About", "about"}
    THEN HintLenAbout
    ELSE IF u.path \in {<<>>, <<"/">>} THEN HintLenHome ELSE HintLenDefault

PageInfoLen == 24
HintNoteLen == 179
MetaHeaderLen == 25
OutlineHeaderLen == 35
OutlineNote1Len == 102
OutlineNote2Len == 75
OutlineNote3Len == 103
TextHeaderFixedLen == 31   \* "\n=== FULL EXTRACTED TEXT (" and ") ==="
StatusCompleteLen == 8     \* "complete"
StatusTruncatedFixedLen == 31  \* "truncated to ", " chars (of ", " total)"
TextNoteLen == 96
TextWarnLen == 238
TaskHeaderLen == 18
TaskBasedLen == 100
TaskExtractLen == 113
TaskThoroughLen == 110
TaskRememberLen == 83
TaskCriticalLen == 215
VisionInstructionLen == 473

TextStatusLen(view, total) ==
    IF view >= total THEN StatusCompleteLen
    ELSE StatusTruncatedFixedLen + CommaLen(view) + CommaLen(total)

\* user_parts as built for the first attempt
InitialParts(u, pg, view, nsecs) ==
    <<Part("info", PageInfoLen, 0),
      Part("info", 5 + UrlLen(u), 0),
      Part("info", 7 + pg.tlen, 0),
      Part("info", HintLen(u), 0),
      Part("info", HintNoteLen, 0),
      Part("meta_header", MetaHeaderLen, 0),
      Part("outline_header", OutlineHeaderLen, 0),
      Part("outline_note", OutlineNote1Len, 0),
      Part("outline_note", OutlineNote2Len, 0),
      Part("outline_note", OutlineNote3Len, 0),
      Part("outline_json", 1 + OutlineJsonLen(pg, nsecs), nsecs),
      Part("text_header", TextHeaderFixedLen + TextStatusLen(view, pg.len), 0),
      Part("text_note", TextNoteLen, 0)>>
    \o (IF view < pg.len THEN <<Part("text_note", TextWarnLen, 0)>> ELSE <<>>)
    \o <<Part("text", view, view),
         Part("task", TaskHeaderLen, 0),
         Part("task", TaskBasedLen, 0),
         Part("task", TaskExtractLen, 0),
         Part("task", TaskThoroughLen, 0),
         Part("task", TaskRememberLen, 0),
         Part("task", TaskCriticalLen, 0)>>

\* the request placed in `messages`: the user prompt, the vision instruction
\* appended to it when a screenshot is sent, and the image
Message(ps, shot, instr) ==
    [parts |-> ps, extra |-> IF shot THEN instr ELSE 0, image |-> shot]

\* the size of the user message text of a request
PayloadLen(m) == JoinLen(m.parts) + m.extra

----------------------------------------------------------------------------
(* The retry controller's shrink steps (crawl, "Retry logic for token      *)
(* limit errors")                                                          *)

max_retries == 2
AggressiveTextLen == 20000
AggressiveSections == 15

RetryHeaderFixedLen == 74   \* "\n=== FULL EXTRACTED TEXT (truncated to ", " chars after token limit error) ==="
RetryNoteLen == 56
RetryCriticalLen == 184
RetryVisionLen == 175
FinalHeaderFixedLen == 78   \* "\n=== FULL EXTRACTED TEXT (heavily truncated to ", " chars due to token limits) ==="
FinalNoteLen == 79
FinalVisionLen == 163

RECURSIVE Pow2Floor(_, _)
Pow2Floor(v, k) == IF 2 * k <= v THEN Pow2Floor(v, 2 * k) ELSE k

\* int(n * 0.7) in IEEE double arithmetic: the double 0.7 lies below 7/10, so
\* where 7n/10 is an integer q the product rounds to q only if q is at most
\* 1.75 times the power of two below it, and truncates to q - 1 otherwise
IntMul07(n) ==
    LET q == (7 * n) \div 10
    IN IF n % 10 = 0 /\ q > 0 /\ 4 * q > 7 * Pow2Floor(q, 1) THEN q - 1 ELSE q

\* current_text[:int(len(current_text) * 0.7)]
ShrinkText(ctext) == IntMul07(ctext)

\* current_outline["sections"][:int(len(sections) * 0.7)], when there are sections
ShrinkSections(csecs) == IF csecs > 0 THEN IntMul07(csecs) ELSE csecs

\* text[:20000]
AggressiveText(t) == Min(t, AggressiveTextLen)

\* outline["sections"][:15], when there are sections
AggressiveOutline(o) == IF o.nsec > 0 THEN Min(o.nsec, AggressiveSections) ELSE o.nsec

\* the 1-based position of the first part of kind k, 0 when there is none
FirstOfKind(ps, k) ==
    IF \E i \in 1..Len(ps) : ps[i].kind = k
    THEN CHOOSE i \in 1..Len(ps) : ps[i].kind = k /\ \A j \in 1..(i - 1) : ps[j].kind # k
    ELSE 0

RetryTail(ctext) ==
    <<Part("text_header", RetryHeaderFixedLen + CommaLen(ctext), 0),
      Part("text_note", RetryNoteLen, 0),
      Part("text", ctext, ctext),
      Part("task", TaskHeaderLen, 0),
      Part("task", TaskBasedLen, 0),
      Part("task", TaskExtractLen, 0),
      Part("task", RetryCriticalLen, 0)>>

\* user_parts_retry of a progressive shrink step
RetryParts(ps, o, ctext, csecs) ==
    LET text_start_idx == FirstOfKind(ps, "text_header")
    IN IF text_start_idx # 0
       THEN LET head == SubSeq(ps, 1, text_start_idx - 1)
                hdr == FirstOfKind(head, "outline_header")
                \* outline_idx = i + 1 is the part right after the header
                replaced == IF hdr # 0 /\ hdr < Len(head)
                            THEN [head EXCEPT ![hdr + 1] =
                                     Part("outline_json", 1 + OutlineJsonLen(o, csecs), csecs)]
                            ELSE head
            IN replaced \o RetryTail(ctext)
       ELSE SubSeq(ps, 1, Len(ps) - 3) \o RetryTail(ctext)

\* user_parts_trunc of the final aggressive attempt
FinalParts(ps, ctext) ==
    SubSeq(ps, 1, Len(ps) - 3) \o
    <<Part("text_header", FinalHeaderFixedLen + CommaLen(ctext), 0),
      Part("text_note", FinalNoteLen, 0),
      Part("text", ctext, ctext),
      Part("task", TaskHeaderLen, 0),
      Part("task", TaskBasedLen, 0),
      Part("task", TaskExtractLen, 0),
      Part("task", RetryCriticalLen, 0)>>

----------------------------------------------------------------------------
(* normalize_url, on URL texts.  A text is a sequence of tokens: ":", "/", *)
(* "#", and words (runs of letters, digits and dots); <<>> is the empty    *)
(* string, and None where a text is optional.                              *)

MaxLinkLen == 5     \* at most this many tokens in a link

LinkTokens == {"http", "httpx", "ftp", ":", "/", "a", "#"}

BaseTexts ==
    {<<"https", ":", "/", "/", "example.com", "/">>,
     <<"http", ":", "/", "/", "example.com", "/", "x", "/", "y">>}

None == <<>>

IsWord(t) == t \notin {":", "/", "#"}

\* str.find on tokens: the first position of a token of ts in s, 0 for none
Find(s, ts) ==
    IF \E i \in DOMAIN s : s[i] \in ts
    THEN CHOOSE i \in DOMAIN s : s[i] \in ts /\ \A j \in 1..(i - 1) : s[j] \notin ts
    ELSE 0

From(s, i) == SubSeq(s, i, Len(s))

StartsWith(s, prefix) == Len(s) >= Len(prefix) /\ SubSeq(s, 1, Len(prefix)) = prefix

\* scheme in uses_netloc, scheme in uses_relative (both lists hold '', ftp,
\* http and https, and no other scheme of the model)
UsesNetloc(scheme) == scheme \in {<<>>, <<"ftp">>, <<"http">>, <<"https">>}
UsesRelative(scheme) == scheme \in {<<>>, <<"ftp">>, <<"http">>, <<"https">>}

SplitResult(scheme, netloc, path, fragment) ==
    [scheme |-> scheme, netloc |-> netloc, path |-> path, fragment |-> fragment]

\* urllib.parse.urlparse(url, scheme): the scheme before the first ":" when
\* only scheme characters precede it, the netloc after a leading "//" up to
\* the next "/" or "#", the fragment after the first "#", the path
urlparse(ref, scheme) ==
    LET i == Find(ref, {":"})
        found == i > 1 /\ \A j \in 1..(i - 1) : IsWord(ref[j])
        rest == IF found THEN From(ref, i + 1) ELSE ref
        slashes == StartsWith(rest, <<"/", "/">>)
        after == From(rest, 3)
        delim == Find(after, {"/", "#"})
        netloc == IF ~slashes THEN <<>>
                  ELSE IF delim = 0 THEN after ELSE SubSeq(after, 1, delim - 1)
        tail == IF ~slashes THEN rest
                ELSE IF delim = 0 THEN <<>> ELSE From(after, delim)
        h == Find(tail, {"#"})
    IN SplitResult(IF found THEN SubSeq(ref, 1, i - 1) ELSE scheme,
                   netloc,
                   IF h = 0 THEN tail ELSE SubSeq(tail, 1, h - 1),
                   IF h = 0 THEN <<>> ELSE From(tail, h + 1))

\* urllib.parse.urlunparse
urlunparse(p) ==
    LET authority == \/ p.netloc # <<>>
                     \/ /\ p.scheme # <<>>
                        /\ UsesNetloc(p.scheme)
                        /\ ~StartsWith(p.path, <<"/", "/">>)
        rooted == IF p.path # <<>> /\ Head(p.path) # "/" THEN <<"/">> \o p.path ELSE p.path
        body == IF authority THEN <<"/", "/">> \o p.netloc \o rooted ELSE p.path
        schemed == IF p.scheme # <<>> THEN p.scheme \o <<":">> \o body ELSE body
    IN IF p.fragment # <<>> THEN schemed \o <<"#">> \o p.fragment ELSE schemed

\* str.split('/') and '/'.join on token sequences
RECURSIVE SplitSlash(_)
SplitSlash(path) ==
    LET i == Find(path, {"/"})
    IN IF i = 0 THEN <<path>>
       ELSE <<SubSeq(path, 1, i - 1)>> \o SplitSlash(From(path, i + 1))

RECURSIVE JoinSlash(_)
JoinSlash(segments) ==
    IF segments = <<>> THEN <<>>
    ELSE IF Len(segments) = 1 THEN Head(segments)
    ELSE Head(segments) \o <<"/">> \o JoinSlash(Tail(segments))

\* segments[1:-1] = filter(None, segments[1:-1])
FilterMiddle(segments) ==
    LET n == Len(segments)
    IN IF n < 3 THEN segments
       ELSE <<segments[1]>>
            \o SelectSeq(SubSeq(segments, 2, n - 1), LAMBDA seg : seg # <<>>)
            \o <<segments[n]>>

\* urllib.parse.urljoin (the texts of the model hold no "." or ".." segment,
\* no query and no params)
urljoin(base, ref) ==
    IF base = <<>> THEN ref
    ELSE IF ref = <<>> THEN base
    ELSE LET b == urlparse(base, <<>>)
             u == urlparse(ref, b.scheme)
             netloc == IF UsesNetloc(u.scheme) THEN b.netloc ELSE u.netloc
             parts == SplitSlash(b.path)
             base_parts == IF parts[Len(parts)] # <<>>
                           THEN SubSeq(parts, 1, Len(parts) - 1) ELSE parts
             segments == IF StartsWith(u.path, <<"/">>) THEN SplitSlash(u.path)
                         ELSE FilterMiddle(base_parts \o SplitSlash(u.path))
             resolved == IF JoinSlash(segments) = <<>> THEN <<"/">> ELSE JoinSlash(segments)
         IN IF u.scheme # b.scheme \/ ~UsesRelative(u.scheme) THEN ref
            ELSE IF UsesNetloc(u.scheme) /\ u.netloc # <<>> THEN urlunparse(u)
            ELSE IF u.path = <<>>
            THEN urlunparse(SplitResult(u.scheme, netloc, b.path, u.fragment))
            ELSE urlunparse(SplitResult(u.scheme, netloc, resolved, u.fragment))

\* parsed.scheme.startswith("http")
StartsWithHttp(scheme) == scheme # <<>> /\ Head(scheme) \in {"http", "https", "httpx"}

\* the http(s) check on the parsed URL, and its text without the fragment
CleanUrl(parsed) ==
    IF ~StartsWithHttp(parsed.scheme) THEN None
    ELSE urlunparse([parsed EXCEPT !.fragment = <<>>])

normalize_url(base, link) ==
    IF link = <<>> THEN None
    ELSE CleanUrl(urlparse(urljoin(base, link), <<>>))

----------------------------------------------------------------------------
(* build_structured_outline, on a document body given as its sequence of   *)
(* sibling elements.  A text is the sequence of its lines.                 *)

MaxNodes == 4       \* at most this many sibling elements in a document

Elem(tag, txt) == [tag |-> tag, txt |-> txt]

HeadingTags == {"h1", "h2", "h3", "h4", "h5", "h6"}

\* int(tag_name[1]) for a heading tag, 7 otherwise
heading_level(tag_name) ==
    CASE tag_name = "h1" -> 1 [] tag_name = "h2" -> 2 [] tag_name = "h3" -> 3
      [] tag_name = "h4" -> 4 [] tag_name = "h5" -> 5 [] tag_name = "h6" -> 6
      [] OTHER -> 7

\* block_text(node): the text of a paragraph; for any other element, a
\* heading included, the texts of its children
block_text(node) == node.txt

\* "\n".join(t for t in texts if t.strip()) over the block texts of nodes
RECURSIVE JoinTexts(_)
JoinTexts(nodes) ==
    IF nodes = <<>> THEN <<>>
    ELSE (IF block_text(Head(nodes)) # "" THEN <<block_text(Head(nodes))>> ELSE <<>>)
         \o JoinTexts(Tail(nodes))

Section(heading, level, txt) == [heading |-> heading, level |-> level, text |-> txt]

\* the positions of the headings of a document, in document order
HeadingsAt(nodes) == {i \in DOMAIN nodes : nodes[i].tag \in HeadingTags}

\* `for sib in h.next_siblings:` up to the break at a heading of the same or
\* a higher level
SiblingsUntilBreak(nodes, i) ==
    LET level == heading_level(nodes[i].tag)
        stops == {j \in (i + 1)..Len(nodes) :
                     nodes[j].tag \in HeadingTags /\ heading_level(nodes[j].tag) <= level}
        last == IF stops = {} THEN Len(nodes)
                ELSE (CHOOSE j \in stops : \A k \in stops : j <= k) - 1
    IN SubSeq(nodes, i + 1, last)

\* the sections of the headings from position i on
RECURSIVE HeadingSections(_, _)
HeadingSections(nodes, i) ==
    IF i > Len(nodes) THEN <<>>
    ELSE (IF nodes[i].tag \in HeadingTags
          THEN <<Section(nodes[i].txt, heading_level(nodes[i].tag),
                         JoinTexts(SiblingsUntilBreak(nodes, i)))>>
          ELSE <<>>)
         \o HeadingSections(nodes, i + 1)

\* build_structured_outline(html)["sections"]: the "Intro" section of what
\* precedes the first heading, one section per heading, the "Outro" section
\* of what follows the last heading
build_structured_outline(nodes) ==
    LET hs == HeadingsAt(nodes)
        first_heading == CHOOSE i \in hs : \A j \in hs : i <= j
        last_heading == CHOOSE i \in hs : \A j \in hs : i >= j
        preface == JoinTexts(SubSeq(nodes, 1, first_heading - 1))
        trail == JoinTexts(SubSeq(nodes, last_heading + 1, Len(nodes)))
    IN IF hs = {} THEN <<>>
       ELSE (IF preface # <<>> THEN <<Section("Intro", 0, preface)>> ELSE <<>>)
            \o HeadingSections(nodes, 1)
            \o (IF trail # <<>> THEN <<Section("Outro", 7, trail)>> ELSE <<>>)

----------------------------------------------------------------------------
(* The crawl run *)

----------------------------------------------------------------------------
(* JSON values: the service's parsed reply, page_schema, manifest values.  *)
(* A value is a node: its kind k ("obj", "arr", "str", "null"), the key it *)
(* is stored under when it is a member of an object ("" otherwise), its    *)
(* string val (a sequence of pieces) and its members or elements items.    *)

MaxItems == 1       \* at most this many elements in an array of a reply

Node(k, key, val, items) == [k |-> k, key |-> key, val |-> val, items |-> items]
Str(key, v) == Node("str", key, v, <<>>)
Arr(key, items) == Node("arr", key, <<>>, items)
Obj(key, items) == Node("obj", key, <<>>, items)

\* the URL as a string: scheme, host labels, path pieces
UrlStr(u) == <<"https://">> \o u.host \o u.path

\* the page title, as extracted
Title == "title"

non_schema_fields ==
    {"extracted_text", "extractedText", "rawText", "content", "raw_text", "full_text",
     "outline", "sections", "headings", "tag", "level", "evidence", "metadata"}

NotDenied(member) == member.key \notin non_schema_fields

clean_dict_objects_only(d) ==
    IF d.k = "obj" THEN [d EXCEPT !.items = SelectSeq(d.items, NotDenied)] ELSE d

\* clean_dict(d): drops the deny-listed keys of every object, through arrays
RECURSIVE clean_dict(_)
clean_dict(d) ==
    IF d.k = "obj"
    THEN LET kept == SelectSeq(d.items, NotDenied)
         IN [d EXCEPT !.items = [i \in 1..Len(kept) |-> clean_dict(kept[i])]]
    ELSE IF d.k = "arr"
    THEN [d EXCEPT !.items = [i \in 1..Len(d.items) |-> clean_dict(d.items[i])]]
    ELSE d

\* "Clean schema": if isinstance(page_schema, dict): del the deny-listed
\* top-level fields, then page_schema = clean_dict(page_schema)
Sanitize(schema) ==
    IF schema.k = "obj"
    THEN clean_dict([schema EXCEPT !.items = SelectSeq(schema.items, NotDenied)])
    ELSE schema

\* The replies the service can give that parse as JSON.  A reply built in
\* levels: strings, then arrays and objects over the level below.
ReplyKeys == <<"@type", "content">>
JsonKeys == {"", ReplyKeys[1], ReplyKeys[2]}

\* the member lists of an object over the values below, per key
Members(below) ==
    {<<>>} \cup {<<v>> : v \in below[ReplyKeys[1]] \cup below[ReplyKeys[2]]}
           \cup {<<v, w>> : v \in below[ReplyKeys[1]], w \in below[ReplyKeys[2]]}

Grow(below, key) ==
    below[key] \cup {Arr(key, items) : items \in SeqsUpTo(below[""], MaxItems)}
               \cup {Obj(key, items) : items \in Members(below)}

Json0(key) == {Str(key, <<"v">>)}
Json1(key) == Grow([k \in JsonKeys |-> Json0(k)], key)
Json2(key) == Grow([k \in JsonKeys |-> Json1(k)], key)
Json3(key) == Grow([k \in JsonKeys |-> Json2(k)], key)

\* what the service returns for an ordinary page
PlainAnswers ==
    {Obj("", <<Str("@context", <<"https://schema.org">>), Str("@type", <<"Organization">>)>>)}

----------------------------------------------------------------------------
(* The service *)

\* What a service call can come back with: a reply that parses ("ok"), a
\* reply that is not JSON ("badjson"), or an exception:
\*   "size"  429, request too large for the tokens-per-minute limit
\*   "rate"  429, requests-per-minute rate limit reached (rate_limit_exceeded)
\*   "error" any other failure (5xx, connection, authentication)
Replies == {"ok", "badjson", "size", "rate", "error"}

\* the substrings of str(api_error) the controller looks for
ErrorStr(r) ==
    [has429 |-> r \in {"size", "rate"},
     hasToken |-> r = "size",
     hasTPM |-> r = "size",
     hasRateLimit |-> r \in {"size", "rate"}]

\* "429" in error_str and ("token" in ... or "TPM" in ... or "rate_limit" in ...)
TokenLimitError(r) ==
    /\ r \notin {"ok", "badjson"}
    /\ ErrorStr(r).has429
    /\ (ErrorStr(r).hasToken \/ ErrorStr(r).hasTPM \/ ErrorStr(r).hasRateLimit)

NoPath == MaxPages + 1      \* the distance of a URL no link path has reached

NoSchema == Node("null", "", <<>>, <<>>)
NoOutline == [nsec |-> 0, seclen |-> 0, tlen |-> 0]
NoMessage == Message(<<>>, FALSE, 0)

FallbackSchemaNoName(u) ==
    Obj("", <<Str("@context", <<"https://schema.org">>),
              Str("@type", <<"WebPage">>),
              Str("url", UrlStr(u))>>)

\* {"@context": "https://schema.org", "@type": "WebPage", "name": title, "url": url}
FallbackSchema(u) ==
    Obj("", <<Str("@context", <<"https://schema.org">>),
              Str("@type", <<"WebPage">>),
              Str("name", <<Title>>),
              Str("url", UrlStr(u))>>)

\* path.rstrip("/")
RECURSIVE RStripSlash(_)
RStripSlash(path) ==
    IF path # <<>> /\ path[Len(path)] = "/"
    THEN RStripSlash(SubSeq(path, 1, Len(path) - 1))
    ELSE path

PathKeyAsIs(u) == IF u.path = <<>> THEN <<"/">> ELSE u.path

\* the manifest key of a URL: parsed_url.path or "/", a leading "/" enforced,
\* trailing slashes stripped unless the path is "/"
PathKey(u) ==
    LET path == IF u.path = <<>> THEN <<"/">> ELSE u.path
        lead == IF Head(path) # "/" THEN <<"/">> \o path ELSE path
    IN IF lead # <<"/">> /\ lead[Len(lead)] = "/" THEN RStripSlash(lead) ELSE lead

----------------------------------------------------------------------------
(* HTTP: fetch_text, sitemap discovery and sitemap resolution *)

NoUrl == Url(<<>>, <<>>)      \* None, where a URL is optional

\* urlparse.urljoin(base_url, "/" + name)
UrlJoinRoot(base, name) == Url(base.host, <<"/", name>>)

robots_url == UrlJoinRoot(base_url, "robots.txt")
SitemapXml == UrlJoinRoot(base_url, "sitemap.xml")
SitemapIndexXml == UrlJoinRoot(base_url, "sitemap_index.xml")

\* What a GET can come to:
\*   "ok"            a response below 400 of an allowed content type, with a body
\*   "empty"         the same with an empty body
\*   "status"        resp.status_code >= 400
\*   "content_type"  a content type that is not among allowed_content_types
\*   "network"       session.get raises a requests.RequestException
FetchOutcomes == {"ok", "empty", "status", "content_type", "network"}

HasTextAlways(outcome) == TRUE

\* fetch_text returned a text that is truthy (`if not text`, `if not html`)
HasText(outcome) == outcome = "ok"

\* fetch_text: `if rate_limit > 0: time.sleep(rate_limit)` follows session.get
\* when it returns; when it raises, control is in the handler
SleptAfter(outcome) == rate_limit > 0 /\ outcome # "network"

Request(target, outcome, slept) == [target |-> target, outcome |-> outcome, slept |-> slept]

\* the request fetch_text makes for a URL
FetchRequest(target, outcome) == Request(target, outcome, SleptAfter(outcome))

\* A document served at a sitemap URL: how the GET for it ends, what the
\* text holds ("index" for <sitemapindex, "urlset" for <urlset, "other"), and
\* its <loc> entries in document order.
Doc(fetch, kind, locs) == [fetch |-> fetch, kind |-> kind, locs |-> locs]

\* a URL the site does not serve
NoDoc == Doc("status", "other", <<>>)

DocAt(maps, u) == IF u \in DOMAIN maps THEN maps[u] ELSE NoDoc

\* robots.txt: how the GET for it ends ("ok" is status 200) and the URLs of
\* its "Sitemap:" lines, in order
Robots(outcome, directives) == [outcome |-> outcome, directives |-> directives]

\* "De-duplicate while preserving order"
RECURSIVE Unique(_, _)
Unique(cs, seen) ==
    IF cs = <<>> THEN <<>>
    ELSE IF Head(cs) \in seen THEN Unique(Tail(cs), seen)
    ELSE <<Head(cs)>> \o Unique(Tail(cs), seen \cup {Head(cs)})

\* discover_sitemaps: the two well-known candidates, then the robots.txt
\* directives appended, then de-duplication
discover_sitemaps(robots) ==
    LET candidates == <<SitemapXml, SitemapIndexXml>>
        declared == IF robots.outcome = "ok" THEN robots.directives ELSE <<>>
    IN Unique(candidates \o declared, {})

\* parse_sitemap_for_urls: every <loc> of the text, in document order
parse_sitemap_for_urls(doc) == doc.locs

ChildSeedsFirstOnly(maps, child) ==
    LET ctext == DocAt(maps, child)
    IN IF HasText(ctext.fetch) /\ ctext.kind = "urlset"
       THEN SubSeq(ctext.locs, 1, 1) ELSE <<>>

\* a child of an index: `if ctext and "<urlset" in ctext: seed_urls.extend(...)`
ChildSeeds(maps, child) ==
    LET ctext == DocAt(maps, child)
    IN IF HasText(ctext.fetch) /\ ctext.kind = "urlset"
       THEN parse_sitemap_for_urls(ctext) ELSE <<>>

RECURSIVE IndexSeeds(_, _)
IndexSeeds(maps, child_maps) ==
    IF child_maps = <<>> THEN <<>>
    ELSE ChildSeeds(maps, Head(child_maps)) \o IndexSeeds(maps, Tail(child_maps))

\* what one sitemap adds to seed_urls: nothing when the fetch gives no text;
\* the entries of its children when it is an index; its own entries when it
\* is a urlset
SitemapSeeds(maps, sm) ==
    LET txt == DocAt(maps, sm)
    IN IF ~HasText(txt.fetch) THEN <<>>
       ELSE IF txt.kind = "index" THEN IndexSeeds(maps, parse_sitemap_for_urls(txt))
       ELSE IF txt.kind = "urlset" THEN parse_sitemap_for_urls(txt)
       ELSE <<>>

\* the requests made for one sitemap: itself, then each child of an index
SitemapRequests(maps, sm) ==
    LET txt == DocAt(maps, sm)
        child_maps == parse_sitemap_for_urls(txt)
    IN <<FetchRequest(sm, txt.fetch)>> \o
       (IF HasText(txt.fetch) /\ txt.kind = "index"
        THEN [i \in 1..Len(child_maps) |->
                 FetchRequest(child_maps[i], DocAt(maps, child_maps[i]).fetch)]
        ELSE <<>>)

\* `for sm in maps:` seed_urls after the loop
RECURSIVE ResolveSeeds(_, _)
ResolveSeeds(maps, sms) ==
    IF sms = <<>> THEN <<>>
    ELSE SitemapSeeds(maps, Head(sms)) \o ResolveSeeds(maps, Tail(sms))

\* `for sm in maps:` the requests made by the loop
RECURSIVE ResolveRequests(_, _)
ResolveRequests(maps, sms) ==
    IF sms = <<>> THEN <<>>
    ELSE SitemapRequests(maps, Head(sms)) \o ResolveRequests(maps, Tail(sms))

SeedsAsFound(found) == found

\* `if not seed_urls: seed_urls = [base_url]`
SeedsOrBase(found) == IF found = <<>> THEN <<base_url>> ELSE found

\* The web site of a run: its robots.txt, the documents at its sitemap URLs,
\* the outcomes a page fetch can have, and the pages that answer 404.
Web(robots, maps, fetch, broken) ==
    [robots |-> robots, maps |-> maps, fetch |-> fetch, broken |-> broken]

\* a site without a robots.txt whose /sitemap.xml lists locs, and whose page
\* fetches succeed or are answered with an HTTP error
PlainWeb(locs) ==
    Web(Robots("status", <<>>), SitemapXml :> Doc("ok", "urlset", locs),
        {"ok", "status"}, {})

\* The environment of a run: the URLs links can point to, the page contents
\* a fetch can return ("small" or "all"), the outcomes of the service's calls
\* and its parsed replies ("plain" or "json"), the web site, and the
\* operations of the run that can raise (file system, HTML parsing).
Site(urls, pages, outcomes, answers, web, faults) ==
    [urls |-> urls, pages |-> pages, outcomes |-> outcomes, answers |-> answers,
     web |-> web, faults |-> faults]

\* the outcomes the fetch of page u can have
PageOutcomes(s, u) == IF u \in s.web.broken THEN {"status"} ELSE s.web.fetch

PagesOf(s) == IF s.pages = "all" THEN AllPages ELSE SmallPages

AnswersOf(s) == IF s.answers = "json" THEN Json3("") ELSE PlainAnswers

Range(f) == {f[i] : i \in DOMAIN f}

\* every URL a run against the site can meet
UrlsOf(s) ==
    s.urls \cup {base_url} \cup UNION {Range(s.web.maps[m].locs) : m \in DOMAIN s.web.maps}

\* the manifest file: not yet created, opened for writing (truncated, its
\* content not yet complete), or written with the entries of a manifest
NoFile == [state |-> "absent", entries |-> <<>>]
OpenedFile == [state |-> "open", entries |-> <<>>]
WrittenFile(m) == [state |-> "written", entries |-> m]

\* slugify(f"{hostname}-{path.strip('/') or 'home'}"): the names of the host
\* and of the path in lower case; every run of other characters is one "-"
LowerCase(name) == IF name = "About" THEN "about" ELSE name

safe_slug_from_url(u) ==
    LET names == SelectSeq(u.path, LAMBDA piece : piece # "/")
        words == u.host \o (IF names = <<>> THEN <<"home">> ELSE names)
    IN [i \in DOMAIN words |-> LowerCase(words[i])]

\* What the prompt dump holds: the system prompt, the user prompt (the
\* joined parts), and the note that a screenshot was included.
PromptDump(ps, shot) == [system |-> "system", user |-> ps, note |-> shot]

NoCall == [base |-> <<>>, link |-> <<>>, clean |-> <<>>, again |-> <<>>, done |-> 0]
NoOutlineCall == [nodes |-> <<>>, sections |-> <<>>, done |-> FALSE]
NoTruncateCall == [len |-> 0, occ |-> {}, view |-> 0, windows |-> {}, done |-> FALSE]
NoSeeding == [base_url |-> <<>>, locs |-> <<>>, queue |-> <<>>, visited |-> {}, pc |-> "done"]
NoCallback == 0

\* The state in which crawl() is entered.
InitCrawl(sites) ==
    /\ site \in sites
    /\ seed_urls = <<>>
    /\ queue = <<>>
    /\ visited = {}
    /\ count = 0
    /\ manifest = <<>>
    /\ index_entries = <<>>
    /\ disk = NoFile
    /\ sitemap_requests = <<>>
    /\ http_log = <<>>
    /\ fetched = <<>>
    /\ dist = [u \in UrlsOf(site) |-> NoPath]
    /\ prompts = <<>>
    /\ pc = "setup"
    /\ url = base_url
    /\ text = 0
    /\ outline = NoOutline
    /\ screenshot_b64 = FALSE
    /\ user_parts = <<>>
    /\ messages = NoMessage
    /\ retry_count = 0
    /\ current_text = 0
    /\ current_outline = 0
    /\ page_schema = NoSchema
    /\ sent = <<>>

\* no job thread runs beside the crawl
\* None in a field of a job record, of a response or of the stream
Null == "null"

\* the parameter list of crawl(), and its parameters without a default
CrawlParameters ==
    {"base_url", "sitemap_url", "output_dir", "max_pages", "rate_limit", "user_agent",
     "allow_subdomains", "timeout", "skip_llm", "model", "api_key", "dump_prompts",
     "no_truncate", "save_outline", "use_vision", "progress_callback"}

CrawlRequired ==
    {"base_url", "sitemap_url", "output_dir", "max_pages", "rate_limit", "user_agent",
     "allow_subdomains", "timeout", "skip_llm", "model", "api_key"}

Endpoints == {"crawl", "stream", "async"}

\* the keyword arguments of the crawl() call of an endpoint
CallKeywords(endpoint) ==
    {"base_url", "sitemap_url", "output_dir", "max_pages", "rate_limit", "user_agent",
     "allow_subdomains", "timeout", "skip_llm", "model", "api_key", "dump_prompts",
     "no_truncate", "extract_mode", "use_vision"}
    \cup (IF endpoint = "crawl" THEN {} ELSE {"progress_callback"})

\* Python binds the call's keywords to the parameters, or raises TypeError
\* for an unexpected keyword or a missing required argument
Accepts(parameters, keywords) ==
    keywords \subseteq parameters /\ CrawlRequired \subseteq keywords

Call(endpoint, accepted) == [endpoint |-> endpoint, accepted |-> accepted]

\* jobs[job_id] as crawl_async_endpoint creates it
NewJob == [status |-> "running", error |-> Null, zip_path |-> Null, filename |-> Null]

Response(endpoint, job, code, status, error) ==
    [endpoint |-> endpoint, job |-> job, code |-> code, status |-> status,
     error |-> error]

NoResponse == Response(Null, 0, 0, Null, Null)

\* the state of generate(): the crawler thread, crawl_error, progress_queue,
\* the position of the streaming loop and the events it has yielded
Stream(thread, exc, crawl_error, progress_queue, loop, emitted) ==
    [thread |-> thread, exc |-> exc, crawl_error |-> crawl_error,
     progress_queue |-> progress_queue, loop |-> loop, emitted |-> emitted]

NoStream == Stream("idle", Null, Null, <<>>, "idle", <<>>)

\* the API server has received no request
NoRequests ==
    /\ jobs = <<>>
    /\ job_threads = <<>>
    /\ stream = NoStream
    /\ response = NoResponse
    /\ calls = {}

NoApp == crawl_parameters = CrawlParameters /\ NoRequests

NoJobs ==
    /\ progress_callback = NoCallback
    /\ runs = <<>>
    /\ delivered = {}
    /\ NoApp

\* A crawl on its own: no other call is in progress.
InitRun(sites) ==
    /\ InitCrawl(sites)
    /\ normalize_call = NoCall
    /\ outline_call = NoOutlineCall
    /\ truncate_call = NoTruncateCall
    /\ seeding = NoSeeding
    /\ NoJobs

\* a crawl that is never started: the state of the calls checked on their own
NoCrawl ==
    /\ InitCrawl({Site({base_url}, "small", {"ok"}, "plain", PlainWeb(<<>>), {})})
    /\ api_key = FALSE
    /\ max_pages = 0
    /\ allow_subdomains = FALSE
    /\ skip_llm = FALSE
    /\ no_truncate = FALSE
    /\ use_vision = FALSE
    /\ sitemap_url = NoUrl
    /\ rate_limit = 1
    /\ dump_prompts = FALSE

\* crawl() called without a sitemap_url and with a rate limit
NoSitemapGiven == sitemap_url = NoUrl /\ rate_limit = 1 /\ dump_prompts = TRUE

\* a run with the defaults of crawl()'s optional parameters (no_truncate=False,
\* use_vision=False), against a site of several hosts whose file system works
Init ==
    /\ InitRun({Site(SiteUrls, "small", Replies \ {"rate"}, "plain", PlainWeb(locs), {}) :
                   locs \in SeqsUpTo(SiteUrls, MaxSeeds)})
    /\ api_key \in BOOLEAN
    /\ max_pages \in 0..MaxPages
    /\ allow_subdomains \in BOOLEAN
    /\ skip_llm = FALSE
    /\ no_truncate = FALSE
    /\ use_vision = FALSE
    /\ NoSitemapGiven

\* crawl() up to its loop: the fetch of the given sitemap or sitemap
\* discovery and the fetch of every candidate, the base-URL fallback, the
\* seeding of the queue, the API key check.
Setup ==
    /\ pc = "setup"
    /\ LET given == sitemap_url # NoUrl
           maps == IF given THEN <<sitemap_url>> ELSE discover_sitemaps(site.web.robots)
           robots_request == IF given THEN <<>>
                             ELSE <<Request(robots_url, site.web.robots.outcome, FALSE)>>
       IN /\ http_log' = robots_request \o ResolveRequests(site.web.maps, maps)
          /\ seed_urls' = SeedsOrBase(ResolveSeeds(site.web.maps, maps))
    /\ sitemap_requests' = [i \in DOMAIN http_log' |-> http_log'[i].target]
    /\ queue' = seed_urls'
    /\ dist' = [u \in UrlsOf(site) |->
                  IF \E i \in 1..Len(seed_urls') : seed_urls'[i] = u THEN 0 ELSE NoPath]
    /\ pc' = IF api_key THEN "loop" ELSE "done"
    /\ UNCHANGED <<site, api_key, max_pages, allow_subdomains, skip_llm, no_truncate,
                   use_vision, sitemap_url, rate_limit, dump_prompts, prompts, others,
                   visited, count, manifest, index_entries, disk, fetched,
                   pagevars>>

LoopCondOffByOne == queue # <<>> /\ count <= max_pages

\* while queue and count < max_pages
LoopCond == queue # <<>> /\ count < max_pages

PeekLeft(q) == q

\* url = queue.popleft(): what is left of the queue
PopLeft(q) == Tail(q)

AlreadyVisitedNever(u) == FALSE

\* url in visited
AlreadyVisited(u) == u \in visited

\* not allow_subdomains and not same_registrable_domain(url, origin)
OutOfScope(u) == ~allow_subdomains /\ ~same_registrable_domain(u, origin)

EnqueueableVisitedToo(link) == allow_subdomains \/ link.host = origin_host

\* link not in visited and (allow_subdomains or hostname == origin_host)
Enqueueable(link) ==
    link \notin visited /\ (allow_subdomains \/ link.host = origin_host)

EnqueueFront(q, links) == SelectSeq(links, Enqueueable) \o q

\* for link in iterate_links(...): if ...: queue.append(link)
Enqueue(q, links) == q \o SelectSeq(links, Enqueueable)

Attempt(stage, m, ctext, csecs) ==
    [stage |-> stage, text_view |-> ctext, sections |-> csecs,
     payload |-> PayloadLen(m), reply |-> "pending", content |-> NoSchema]

\* the latest call has come back: r, and for "ok" the parsed reply
Replied(s, r, content) == [s EXCEPT ![Len(s)].reply = r, ![Len(s)].content = content]

ClearPage ==
    /\ text' = 0
    /\ outline' = NoOutline
    /\ screenshot_b64' = FALSE
    /\ user_parts' = <<>>
    /\ messages' = NoMessage
    /\ retry_count' = 0
    /\ current_text' = 0
    /\ current_outline' = 0
    /\ page_schema' = NoSchema
    /\ sent' = <<>>

\* The page was fetched and its title, text and outline extracted: prompt
\* assembly and, unless skip_llm, the first service call.
Extracted(u) ==
    \E pg \in PagesOf(site) :
    \E shot \in (IF use_vision /\ ~skip_llm THEN BOOLEAN ELSE {FALSE}) :
       LET view == TextForLlm(pg)
           nsecs == OutlineForLlm(pg)
           o == [nsec |-> pg.nsec, seclen |-> pg.seclen, tlen |-> pg.tlen]
           ps == InitialParts(u, pg, view, nsecs)
           m == Message(ps, shot, VisionInstructionLen)
       IN /\ text' = pg.len
          /\ outline' = o
          /\ screenshot_b64' = shot
          /\ user_parts' = ps
          /\ prompts' = IF dump_prompts
                        THEN (safe_slug_from_url(u) :> PromptDump(ps, shot)) @@ prompts
                        ELSE prompts
          /\ IF skip_llm
             THEN /\ page_schema' = FallbackSchema(u)
                  /\ pc' = "finish"
                  /\ UNCHANGED <<messages, retry_count, current_text,
                                 current_outline, sent>>
             ELSE /\ messages' = m
                  /\ retry_count' = 0
                  /\ current_text' = view
                  /\ current_outline' = nsecs
                  /\ sent' = <<Attempt("initial", m, view, nsecs)>>
                  /\ pc' = "call"
                  /\ UNCHANGED page_schema

\* One pass through the head of the while loop: pop, visited check, scope
\* check, page fetch, extraction, prompt assembly and the first service call.
LoopStep ==
    /\ pc = "loop"
    /\ LoopCond
    /\ LET u == Head(queue) IN
       /\ url' = u
       /\ queue' = PopLeft(queue)
       /\ UNCHANGED <<config, count, manifest, index_entries, disk,
                      sitemap_requests, dist, others>>
       /\ IF AlreadyVisited(u)
          THEN UNCHANGED <<prompts, visited, fetched, http_log, pc, text, outline, screenshot_b64,
                           user_parts, messages, retry_count, current_text,
                           current_outline, page_schema, sent>>
          ELSE /\ visited' = visited \cup {u}
               /\ IF OutOfScope(u)
                  THEN UNCHANGED <<prompts, fetched, http_log, pc, text, outline, screenshot_b64,
                                   user_parts, messages, retry_count, current_text,
                                   current_outline, page_schema, sent>>
                  ELSE /\ fetched' = Append(fetched, u)
                       /\ \E outcome \in PageOutcomes(site, u) :
                          /\ http_log' = Append(http_log, FetchRequest(u, outcome))
                          /\ IF ~HasText(outcome)
                             THEN UNCHANGED <<prompts, pc, text, outline, screenshot_b64,
                                              user_parts, messages, retry_count,
                                              current_text, current_outline,
                                              page_schema, sent>>
                             ELSE IF \E raised \in site.faults : raised = "extract"
                             THEN \* extraction raises, or it returns
                                  \/ /\ pc' = "crashed"
                                     /\ UNCHANGED <<prompts, text, outline, screenshot_b64,
                                                    user_parts, messages, retry_count,
                                                    current_text, current_outline,
                                                    page_schema, sent>>
                                  \/ Extracted(u)
                             ELSE Extracted(u)

RetryExhaustedLate(rc) == rc > max_retries + 1

\* retry_count > max_retries, after retry_count += 1
RetryExhausted(rc) == rc > max_retries

\* The service answers a call made inside the retry loop.
ServiceReply ==
    /\ pc = "call"
    /\ UNCHANGED <<config, frontier, others, url, text, outline, screenshot_b64,
                   user_parts>>
    /\ \E r \in site.outcomes :
       IF TokenLimitError(r)
       THEN /\ retry_count' = retry_count + 1
            /\ UNCHANGED page_schema
            /\ IF RetryExhausted(retry_count')
               THEN LET ctext == AggressiveText(text)
                        csecs == AggressiveOutline(outline)
                        m == Message(FinalParts(user_parts, ctext), screenshot_b64,
                                     FinalVisionLen)
                    IN /\ current_text' = ctext
                       /\ current_outline' = csecs
                       /\ messages' = m
                       /\ sent' = Append(Replied(sent, r, NoSchema),
                                      Attempt("final", m, ctext, csecs))
                       /\ pc' = "final"
               ELSE LET ctext == ShrinkText(current_text)
                        csecs == ShrinkSections(current_outline)
                        m == Message(RetryParts(user_parts, outline, ctext, csecs),
                                     screenshot_b64, RetryVisionLen)
                    IN /\ current_text' = ctext
                       /\ current_outline' = csecs
                       /\ messages' = m
                       /\ sent' = Append(Replied(sent, r, NoSchema),
                                      Attempt("shrunk", m, ctext, csecs))
                       /\ pc' = "call"
       ELSE /\ IF r = "ok"
               THEN \E content \in AnswersOf(site) :
                       /\ page_schema' = content
                       /\ sent' = Replied(sent, r, content)
               ELSE /\ page_schema' = FallbackSchema(url)
                    /\ sent' = Replied(sent, r, NoSchema)
            /\ pc' = "finish"
            /\ UNCHANGED <<messages, retry_count, current_text, current_outline>>

\* The service answers the final aggressive attempt, made inside the handler
\* of the size rejection: any failure leaves the retry loop for the fallback.
FinalReply ==
    /\ pc = "final"
    /\ UNCHANGED <<config, frontier, others, url, text, outline, screenshot_b64,
                   user_parts, messages, retry_count, current_text, current_outline>>
    /\ \E r \in site.outcomes :
       /\ IF r = "ok"
          THEN \E content \in AnswersOf(site) :
                  /\ page_schema' = content
                  /\ sent' = Replied(sent, r, content)
          ELSE /\ page_schema' = FallbackSchema(url)
               /\ sent' = Replied(sent, r, NoSchema)
       /\ pc' = "finish"

CanRaise(op) == op \in site.faults

\* The page's schema is there: sanitization, the page file, the index entry,
\* the manifest entry, and the manifest file opened for writing.  A file
\* operation that raises ends the run: nothing around it catches.
FinishPage ==
    /\ pc = "finish"
    /\ page_schema' = Sanitize(page_schema)
    /\ \/ /\ CanRaise("page_write")
          /\ pc' = "crashed"
          /\ UNCHANGED <<manifest, index_entries, disk>>
       \/ /\ index_entries' = Append(index_entries, [url |-> url, path |-> PathKey(url)])
          /\ manifest' = (PathKey(url) :> page_schema') @@ manifest
          /\ \/ /\ CanRaise("manifest_open")
                /\ pc' = "crashed"
                /\ UNCHANGED disk
             \/ /\ disk' = OpenedFile
                /\ pc' = "dump"
    /\ UNCHANGED <<config, queue, visited, count, sitemap_requests, http_log, fetched,
                   dist, prompts, others, url, text, outline, screenshot_b64, user_parts, messages,
                   retry_count, current_text, current_outline, sent>>

\* json.dump(manifest, f) completes and the file is closed; then the page
\* counter, link discovery, and the clearing of the page's variables.
DumpManifest ==
    /\ pc = "dump"
    /\ \/ /\ CanRaise("manifest_dump")
          /\ pc' = "crashed"
          /\ UNCHANGED <<disk, count, queue, dist, pagevars>>
       \/ /\ disk' = WrittenFile(manifest)
          /\ count' = count + 1
          /\ \/ /\ CanRaise("links")
                /\ pc' = "crashed"
                /\ UNCHANGED <<queue, dist, pagevars>>
             \/ /\ \E links \in SeqsUpTo(site.urls, MaxLinks) :
                      /\ queue' = Enqueue(queue, links)
                      /\ dist' = [w \in UrlsOf(site) |->
                                    IF \E i \in 1..Len(links) : links[i] = w
                                    THEN Min(dist[w], dist[url] + 1) ELSE dist[w]]
                /\ ClearPage
                /\ pc' = "loop"
                /\ UNCHANGED url
    /\ UNCHANGED <<config, visited, manifest, index_entries, sitemap_requests, http_log,
                   fetched, prompts, others>>

\* The loop condition fails: the final manifest write, manifest.clear(), and
\* the run returns.
LoopExit ==
    /\ pc = "loop"
    /\ ~LoopCond
    /\ disk' = WrittenFile(manifest)
    /\ manifest' = <<>>
    /\ pc' = "done"
    /\ UNCHANGED <<config, queue, visited, count, index_entries, sitemap_requests,
                   http_log, fetched, dist, prompts, others, pagevars>>

Next ==
    \/ Setup
    \/ LoopStep
    \/ ServiceReply
    \/ FinalReply
    \/ FinishPage
    \/ DumpManifest
    \/ LoopExit

Spec == Init /\ [][Next]_vars

\* One page of any modelled content, under every combination of the
\* parameters of crawl() that reach the prompt assembly and the retry loop.
InitRetry ==
    /\ InitRun({Site({base_url}, "all", Replies \ {"rate"}, "plain",
                      PlainWeb(<<base_url>>), {})})
    /\ api_key = TRUE
    /\ max_pages = MaxPages
    /\ allow_subdomains = FALSE
    /\ skip_llm \in BOOLEAN
    /\ no_truncate \in BOOLEAN
    /\ use_vision \in BOOLEAN
    /\ NoSitemapGiven

SpecRetry == InitRetry /\ [][Next]_vars

\* A site of one page, and a service whose calls can have every outcome.
InitService ==
    /\ InitRun({Site({base_url}, "small", Replies, "plain", PlainWeb(<<base_url>>), {})})
    /\ api_key = TRUE
    /\ max_pages = MaxPages
    /\ allow_subdomains = FALSE
    /\ skip_llm \in BOOLEAN
    /\ no_truncate \in BOOLEAN
    /\ use_vision \in BOOLEAN
    /\ NoSitemapGiven

SpecService == InitService /\ [][Next]_vars

\* The operations of the loop body that sit outside every handler; a fault is
\* one of them raising (an OSError of a file operation, a UnicodeEncodeError
\* of json.dump, an error of the HTML parser).
Faults == {"extract", "page_write", "manifest_open", "manifest_dump", "links"}

\* The run of Init on a machine where those operations can fail.
InitFaults ==
    /\ InitRun({Site(SiteUrls, "small", Replies \ {"rate"}, "plain", PlainWeb(locs), Faults) :
                   locs \in SeqsUpTo(SiteUrls, MaxSeeds)})
    /\ api_key = TRUE
    /\ max_pages \in 1..MaxPages
    /\ allow_subdomains = TRUE
    /\ skip_llm = FALSE
    /\ no_truncate = FALSE
    /\ use_vision = FALSE
    /\ NoSitemapGiven

SpecFaults == InitFaults /\ [][Next]_vars

MaxPathLen == 3     \* at most this many pieces in the path of a seed

\* the URLs of the base host whose path is empty or begins with a slash
KeyUrls ==
    {Url(HostBase, path) : path \in {q \in SeqsUpTo({"/", "About"}, MaxPathLen) :
                                        q = <<>> \/ Head(q) = "/"}}

\* A sitemap naming one page of the base host, of any such path; the pages
\* link to the base URL.
InitKeys ==
    /\ InitRun({Site({base_url}, "small", Replies \ {"rate"}, "plain", PlainWeb(<<u>>), {}) :
                   u \in KeyUrls})
    /\ api_key = TRUE
    /\ max_pages = MaxPages
    /\ allow_subdomains = FALSE
    /\ skip_llm = FALSE
    /\ no_truncate = FALSE
    /\ use_vision = FALSE
    /\ NoSitemapGiven

SpecKeys == InitKeys /\ [][Next]_vars

\* One page, and a service that can return every JSON value of three levels.
InitSanitize ==
    /\ InitRun({Site({base_url}, "small", {"ok", "size"}, "json", PlainWeb(<<base_url>>), {})})
    /\ api_key = TRUE
    /\ max_pages = MaxPages
    /\ allow_subdomains = FALSE
    /\ skip_llm = FALSE
    /\ no_truncate = FALSE
    /\ use_vision = FALSE
    /\ NoSitemapGiven

SpecSanitize == InitSanitize /\ [][Next]_vars

MaxDirectives == 2      \* at most this many Sitemap: lines in robots.txt

Page(name) == Url(HostBase, <<"/", name>>)

CustomXml == UrlJoinRoot(base_url, "custom.xml")
Child1Xml == UrlJoinRoot(base_url, "child1.xml")
Child2Xml == UrlJoinRoot(base_url, "child2.xml")
GrandchildXml == UrlJoinRoot(base_url, "grandchild.xml")

Child1Locs == <<Page("p1"), Page("p2"), Page("p3")>>
Child2Locs == <<Page("p4"), Page("p5"), Page("p6"), Page("p7"), Page("p8")>>

\* Web sites with a robots.txt that fails or declares sitemaps, with urlsets,
\* indexes, nested indexes, and sitemap URLs whose fetch fails or is rejected.
SitemapWebs ==
    {Web(robots,
         (SitemapXml :> top) @@ (SitemapIndexXml :> index) @@ (CustomXml :> custom)
            @@ (Child1Xml :> child1) @@ (Child2Xml :> child2)
            @@ (GrandchildXml :> Doc("ok", "urlset", <<Page("g")>>)),
         {"ok"}, {}) :
        robots \in {Robots("network", <<>>)} \cup
                   {Robots("ok", d) : d \in SeqsUpTo({CustomXml, SitemapXml}, MaxDirectives)},
        top \in {NoDoc, Doc("empty", "other", <<>>), Doc("ok", "urlset", <<>>),
                 Doc("ok", "urlset", <<Page("s")>>)},
        index \in {NoDoc, Doc("ok", "index", <<Child1Xml, Child2Xml>>)},
        custom \in {NoDoc, Doc("ok", "urlset", <<Page("c")>>),
                    Doc("ok", "index", <<Child2Xml, Child1Xml>>)},
        child1 \in {Doc("network", "other", <<>>), Doc("ok", "urlset", Child1Locs),
                    Doc("ok", "index", <<GrandchildXml>>)},
        child2 \in {Doc("content_type", "urlset", Child2Locs),
                    Doc("ok", "urlset", Child2Locs)}}

\* A run of one page against such a site, with the sitemap discovered or
\* given as the site's sitemap index.
InitSitemap ==
    /\ InitRun({Site({base_url}, "small", {"ok", "size"}, "plain", web, {}) :
                   web \in SitemapWebs})
    /\ api_key \in BOOLEAN
    /\ max_pages = 1
    /\ allow_subdomains = FALSE
    /\ skip_llm = FALSE
    /\ no_truncate = FALSE
    /\ use_vision = FALSE
    /\ sitemap_url \in {NoUrl, SitemapIndexXml}
    /\ rate_limit = 1
    /\ dump_prompts = TRUE

SpecSitemap == InitSitemap /\ [][Next]_vars

\* A site of two pages whose fetches can end in every way, crawled with and
\* without a rate limit.
InitFetch ==
    /\ InitRun({Site({base_url, Page("a")}, "small", {"ok", "size"}, "plain",
                      Web(Robots("status", <<>>), SitemapXml :> Doc("ok", "urlset", locs),
                          FetchOutcomes, {}), {}) :
                   locs \in SeqsUpTo({base_url, Page("a")}, MaxSeeds)})
    /\ api_key = TRUE
    /\ max_pages \in 1..MaxPages
    /\ allow_subdomains = FALSE
    /\ skip_llm = FALSE
    /\ no_truncate = FALSE
    /\ use_vision = FALSE
    /\ sitemap_url = NoUrl
    /\ rate_limit \in {0, 1}
    /\ dump_prompts = TRUE

SpecFetch == InitFetch /\ [][Next]_vars

\* The pairs of distinct pages a two-entry sitemap can list
TwoPages ==
    {locs \in [1..2 -> {base_url, Page("a"), Page("b")}] : locs[1] # locs[2]}

\* A site of two pages, both listed in its /sitemap.xml and linking to each
\* other only, one of which answers 404; max_pages=10, subdomains disallowed.
InitE2E ==
    /\ InitRun({Site(Range(locs), "small", Replies \ {"rate"}, "plain",
                      Web(Robots("status", <<>>), SitemapXml :> Doc("ok", "urlset", locs),
                          {"ok"}, {locs[i]}), {}) :
                   locs \in TwoPages, i \in 1..2})
    /\ api_key = TRUE
    /\ max_pages = 10
    /\ allow_subdomains = FALSE
    /\ skip_llm = FALSE
    /\ no_truncate = FALSE
    /\ use_vision = FALSE
    /\ NoSitemapGiven

SpecE2E == InitE2E /\ [][Next]_vars

FairE2E == SpecE2E /\ WF_vars(Next)

MaxSlashes == 6     \* at most this many slashes in a row in a link

RECURSIVE Slashes(_)
Slashes(k) == IF k = 0 THEN <<>> ELSE <<"/">> \o Slashes(k - 1)

\* links made of a scheme, a run of slashes and a name
SlashLinks ==
    {scheme \o Slashes(k) \o name :
        scheme \in {<<>>, <<"http", ":">>, <<"httpx", ":">>},
        k \in 0..MaxSlashes,
        name \in {<<>>, <<"a">>}}

\* normalize_url(base, link) is called, for the bases and links of the model
InitNormalize ==
    /\ NoCrawl
    /\ normalize_call \in
          {[NoCall EXCEPT !.base = base, !.link = link] :
              base \in BaseTexts,
              link \in SeqsUpTo(LinkTokens, MaxLinkLen) \cup SlashLinks}
    /\ outline_call = NoOutlineCall
    /\ truncate_call = NoTruncateCall
    /\ seeding = NoSeeding
    /\ NoJobs

\* clean = normalize_url(base, link)
Normalize ==
    /\ normalize_call.done = 0
    /\ normalize_call' =
          [normalize_call EXCEPT
              !.clean = normalize_url(normalize_call.base, normalize_call.link),
              !.done = 1]
    /\ UNCHANGED <<config, frontier, pagevars, pc, outline_call, truncate_call, seeding, jobvars,
                   appvars>>

\* again = normalize_url(base, clean), for a clean that is not None
Renormalize ==
    /\ normalize_call.done = 1
    /\ normalize_call.clean # None
    /\ normalize_call' =
          [normalize_call EXCEPT
              !.again = normalize_url(normalize_call.base, normalize_call.clean),
              !.done = 2]
    /\ UNCHANGED <<config, frontier, pagevars, pc, outline_call, truncate_call, seeding, jobvars,
                   appvars>>

NextNormalize == Normalize \/ Renormalize

SpecNormalize == InitNormalize /\ [][NextNormalize]_vars

\* the elements of the documents of the model
Elems == {Elem("h1", "A"), Elem("h2", "B"), Elem("p", "p1"), Elem("p", "p2")}

\* build_structured_outline is called, for the documents of the model
InitOutline ==
    /\ NoCrawl
    /\ normalize_call = NoCall
    /\ truncate_call = NoTruncateCall
    /\ seeding = NoSeeding
    /\ outline_call \in {[NoOutlineCall EXCEPT !.nodes = nodes] :
                             nodes \in SeqsUpTo(Elems, MaxNodes)}
    /\ NoJobs

BuildOutline ==
    /\ ~outline_call.done
    /\ outline_call' = [outline_call EXCEPT
                            !.sections = build_structured_outline(outline_call.nodes),
                            !.done = TRUE]
    /\ UNCHANGED <<config, frontier, pagevars, pc, normalize_call, truncate_call, seeding, jobvars,
                   appvars>>

NextOutline == BuildOutline

SpecOutline == InitOutline /\ [][NextOutline]_vars

\* Texts given by their length and by the places where FAQ markers occur
\* in them (a marker can occur more than once, no two at one place).
FaqMarkers == {"faq", "q:", "answer"}
FaqTextLens == {50000, 61000, 70000}

Occurrence(marker, at) == [marker |-> marker, at |-> at]

FaqTexts ==
    {c \in {[NoTruncateCall EXCEPT !.len = n, !.occ = occ] :
               n \in FaqTextLens,
               occ \in SUBSET {Occurrence(m, i) : m \in FaqMarkers, i \in FaqSpots}} :
        /\ \A x \in c.occ : x.at + 6 <= c.len
        /\ \A x, y \in c.occ : x.at = y.at => x = y}

\* the smart truncation is applied to a text, with truncation enabled
InitTruncate ==
    /\ NoCrawl
    /\ normalize_call = NoCall
    /\ outline_call = NoOutlineCall
    /\ truncate_call \in FaqTexts
    /\ seeding = NoSeeding
    /\ NoJobs

\* idx = text_lower.find(marker), for each marker: its first occurrence
faq_indices(occ) ==
    {x.at : x \in {o \in occ : \A q \in occ : q.marker = o.marker => o.at <= q.at}}

\* the FAQ windows appended to text_start, by their start index
FaqAppended(pg) ==
    IF pg.len > max_chars_for_text /\ ~no_truncate /\ pg.faq # {}
    THEN LET keep_chars == Min(FaqKeepChars, max_chars_for_text - FaqReserve)
             text_start == Min(keep_chars, pg.len)
             faq_content == {i \in pg.faq : i > keep_chars
                                /\ FaqWindowLen(i, pg) < FaqSectionLimit}
             remaining_chars == max_chars_for_text - text_start
             kept == Min(Cardinality(faq_content), remaining_chars \div FaqWindow)
             faq_text == IF kept = 0 THEN 0
                         ELSE SumFirst(faq_content, kept, pg) + 2 * (kept - 1)
         IN IF faq_content # {} /\ text_start + faq_text <= max_chars_for_text
            THEN {i \in faq_content : Cardinality({y \in faq_content : y < i}) < kept}
            ELSE {}
    ELSE {}

\* text_for_llm is computed for the text
Truncate ==
    /\ ~truncate_call.done
    /\ LET pg == [len |-> truncate_call.len, faq |-> faq_indices(truncate_call.occ)]
       IN truncate_call' = [truncate_call EXCEPT !.view = TextForLlm(pg),
                                                 !.windows = FaqAppended(pg),
                                                 !.done = TRUE]
    /\ UNCHANGED <<config, frontier, pagevars, pc, normalize_call, outline_call, seeding, jobvars,
                   appvars>>

NextTruncate == Truncate

SpecTruncate == InitTruncate /\ [][NextTruncate]_vars

----------------------------------------------------------------------------
(* The frontier on URL texts: the queue is seeded with the <loc> texts of  *)
(* the sitemaps, or with the base URL, and grows by the links of the pages *)
(* that are fetched.                                                       *)

MaxLocs == 2        \* at most this many <loc> entries in the sitemaps
MaxHrefs == 1       \* at most this many anchors on a page
MaxVisits == 2      \* at most this many URLs are taken from the queue

\* the <loc> texts a sitemap can hold
LocTexts ==
    {<<"https", ":", "/", "/", "example.com", "/", "a">>,
     <<"https", ":", "/", "/", "example.com", "/", "a", "#", "a">>,
     <<"ftp", ":", "/", "/", "example.com", "/", "a">>,
     <<"/", "a">>}

\* the href texts an anchor can hold
HrefTexts ==
    {<<>>,
     <<"/", "a">>,
     <<"a", "#", "a">>,
     <<"#", "a">>,
     <<"mailto", ":", "a">>,
     <<"javascript", ":", "a">>,
     <<"httpx", ":", "/", "/", "example.com", "/", "a">>,
     <<"ftp", ":", "/", "/", "example.com", "/", "a">>,
     <<"https", ":", "/", "/", "other.com", "/">>}

\* urlparse(url).hostname, for hosts in lower case without port
hostname(t) == urlparse(t, <<>>).netloc

is_navigable_link(href) ==
    /\ href # <<>>
    /\ ~StartsWith(href, <<"mailto", ":">>)
    /\ ~StartsWith(href, <<"tel", ":">>)
    /\ ~StartsWith(href, <<"javascript", ":">>)

\* the normalized links of the anchors of a page, None dropped
iterate_links(hrefs, page) ==
    SelectSeq([i \in DOMAIN hrefs |->
                  IF is_navigable_link(hrefs[i]) THEN normalize_url(page, hrefs[i])
                  ELSE None],
              LAMBDA norm : norm # None)

\* session.get can answer for the URL: an http(s) URL with a host
Fetchable(t) ==
    /\ urlparse(t, <<>>).scheme \in {<<"http">>, <<"https">>}
    /\ urlparse(t, <<>>).netloc # <<>>

\* the links of a page that are appended to the queue (allow_subdomains
\* is False)
NewLinks(links, seen, base) ==
    SelectSeq(links, LAMBDA link : link \notin seen /\ hostname(link) = hostname(base))

\* A run over a site whose sitemaps list the locs, before the queue is made
InitSeeding ==
    /\ NoCrawl
    /\ normalize_call = NoCall
    /\ outline_call = NoOutlineCall
    /\ truncate_call = NoTruncateCall
    /\ seeding \in {[NoSeeding EXCEPT !.base_url = base, !.locs = locs, !.pc = "seed"] :
                       base \in BaseTexts, locs \in SeqsUpTo(LocTexts, MaxLocs)}
    /\ NoJobs

\* seed_urls falls back to [base_url]; every seed is appended to the queue
SeedQueue ==
    /\ seeding.pc = "seed"
    /\ seeding' = [seeding EXCEPT
                      !.queue = IF seeding.locs = <<>> THEN <<seeding.base_url>>
                                ELSE seeding.locs,
                      !.pc = "loop"]
    /\ UNCHANGED <<config, frontier, pagevars, pc, normalize_call, outline_call,
                   truncate_call, jobvars, appvars>>

\* An iteration that ends at a continue: the URL was visited before, or its
\* fetch returned nothing
SkipUrl ==
    /\ seeding.pc = "loop"
    /\ seeding.queue # <<>>
    /\ Cardinality(seeding.visited) < MaxVisits
    /\ seeding' = [seeding EXCEPT !.queue = Tail(seeding.queue),
                                  !.visited = @ \cup {Head(seeding.queue)}]
    /\ UNCHANGED <<config, frontier, pagevars, pc, normalize_call, outline_call,
                   truncate_call, jobvars, appvars>>

\* An iteration that saves the page: its links are appended to the queue
EnqueueLinks ==
    /\ seeding.pc = "loop"
    /\ seeding.queue # <<>>
    /\ Cardinality(seeding.visited) < MaxVisits
    /\ Head(seeding.queue) \notin seeding.visited
    /\ Fetchable(Head(seeding.queue))
    /\ hostname(Head(seeding.queue)) = hostname(seeding.base_url)
    /\ \E hrefs \in SeqsUpTo(HrefTexts, MaxHrefs) :
          seeding' = [seeding EXCEPT
                         !.queue = Tail(seeding.queue)
                                   \o NewLinks(iterate_links(hrefs, Head(seeding.queue)),
                                               seeding.visited \cup {Head(seeding.queue)},
                                               seeding.base_url),
                         !.visited = @ \cup {Head(seeding.queue)}]
    /\ UNCHANGED <<config, frontier, pagevars, pc, normalize_call, outline_call,
                   truncate_call, jobvars, appvars>>

NextSeeding == SeedQueue \/ SkipUrl \/ EnqueueLinks

SpecSeeding == InitSeeding /\ [][NextSeeding]_vars

\* Sitemaps of two pages whose paths differ in case only, or in more;
\* every service outcome of the retry loop, with and without screenshots
\* and prompt dumps.
DumpLocs == {<<Page("About"), Page("about")>>, <<Page("About"), Page("p1")>>}

InitDump ==
    /\ InitRun({Site({base_url}, "small", {"ok", "size"}, "plain", PlainWeb(locs), {}) :
                   locs \in DumpLocs})
    /\ api_key = TRUE
    /\ max_pages = 2
    /\ allow_subdomains = FALSE
    /\ skip_llm = FALSE
    /\ no_truncate = FALSE
    /\ use_vision \in BOOLEAN
    /\ sitemap_url = NoUrl
    /\ rate_limit = 1
    /\ dump_prompts \in BOOLEAN

SpecDump == InitDump /\ [][Next]_vars

MaxJobs == 3        \* at most this many job threads

Jobs == 1..MaxJobs

\* A crawl() call of a job thread: where it is, and the progress_callback
\* argument it was given (the job's own callback, named by the job's number,
\* or NoCallback for None).
Run(at, callback) == [at |-> at, callback |-> callback]

\* Job threads, each about to call crawl(), with or without a callback.
InitJobs ==
    /\ NoCrawl
    /\ normalize_call = NoCall
    /\ outline_call = NoOutlineCall
    /\ truncate_call = NoTruncateCall
    /\ seeding = NoSeeding
    /\ progress_callback = NoCallback
    /\ runs \in {r \in [Jobs -> {Run("new", cb) : cb \in {NoCallback} \cup Jobs}] :
                    \A j \in Jobs : r[j].callback \in {NoCallback, j}}
    /\ delivered = {}
    /\ NoApp

\* crawl() is entered: `if progress_callback: set_progress_callback(...)`
EnterCrawl(j) ==
    /\ runs[j].at = "new"
    /\ progress_callback' = IF runs[j].callback # NoCallback
                            THEN runs[j].callback ELSE progress_callback
    /\ runs' = [runs EXCEPT ![j].at = "running"]
    /\ UNCHANGED <<config, frontier, pagevars, pc, purevars, appvars, delivered>>

\* the run logs a message: `if _progress_callback: _progress_callback(...)`
LogMessage(j) ==
    /\ runs[j].at = "running"
    /\ delivered' = IF progress_callback # NoCallback
                    THEN delivered \cup {[from |-> j, to |-> progress_callback]}
                    ELSE delivered
    /\ UNCHANGED <<config, frontier, pagevars, pc, purevars, appvars, progress_callback, runs>>

\* crawl() returns; the global keeps the callback
ReturnCrawl(j) ==
    /\ runs[j].at = "running"
    /\ runs' = [runs EXCEPT ![j].at = "done"]
    /\ UNCHANGED <<config, frontier, pagevars, pc, purevars, appvars, progress_callback, delivered>>

NextJobs == \E j \in Jobs : EnterCrawl(j) \/ LogMessage(j) \/ ReturnCrawl(j)

SpecJobs == InitJobs /\ [][NextJobs]_vars

----------------------------------------------------------------------------
(* The API server (app.py): /crawl, /crawl/async with its status and result *)
(* endpoints, and /crawl/stream.  Request handlers and the threads they     *)
(* start interleave statement by statement; every request carries a        *)
(* base_url and an API key, and the file operations of the threads succeed. *)

MaxAsyncJobs == 2   \* at most this many /crawl/async requests
MaxProgress == 1    \* at most this many progress messages of a streamed crawl

JobIds == 1..MaxAsyncJobs

crawlvars == <<config, frontier, pagevars, pc, purevars, jobvars>>

\* The API server starts, with the crawl() of this repository imported, or
\* with a crawl() that has the extract_mode parameter the endpoints pass.
InitApp ==
    /\ NoCrawl
    /\ normalize_call = NoCall
    /\ outline_call = NoOutlineCall
    /\ truncate_call = NoTruncateCall
    /\ seeding = NoSeeding
    /\ progress_callback = NoCallback
    /\ runs = <<>>
    /\ delivered = {}
    /\ crawl_parameters \in {CrawlParameters, CrawlParameters \cup {"extract_mode"}}
    /\ NoRequests

\* the crawl() call of an endpoint is bound to the parameters
Accepted(endpoint) == Accepts(crawl_parameters, CallKeywords(endpoint))

\* POST /crawl: the whole handler; crawl() runs inside it
CrawlEndpoint ==
    /\ \A c \in calls : c.endpoint # "crawl"
    /\ calls' = calls \cup {Call("crawl", Accepted("crawl"))}
    /\ IF ~Accepted("crawl")
       THEN response' = Response("crawl", 0, 500, Null, "TypeError")
       ELSE \/ response' = Response("crawl", 0, 200, Null, Null)
            \/ response' = Response("crawl", 0, 500, Null, "Exception")
    /\ UNCHANGED <<crawlvars, crawl_parameters, jobs, job_threads, stream>>

\* POST /crawl/async: the job is created and its thread started
CrawlAsyncEndpoint ==
    /\ Len(jobs) < MaxAsyncJobs
    /\ jobs' = Append(jobs, NewJob)
    /\ job_threads' = Append(job_threads, [at |-> "start", exc |-> Null])
    /\ response' = Response("async", Len(jobs) + 1, 202, "running", Null)
    /\ UNCHANGED <<crawlvars, crawl_parameters, stream, calls>>

\* run_crawl_job: the call of crawl() and the ZIP creation after it
RunCrawlJob(j) ==
    /\ j \in DOMAIN job_threads
    /\ job_threads[j].at = "start"
    /\ calls' = calls \cup {Call("async", Accepted("async"))}
    /\ IF ~Accepted("async")
       THEN job_threads' = [job_threads EXCEPT ![j] = [at |-> "except", exc |-> "TypeError"]]
       ELSE \/ job_threads' = [job_threads EXCEPT ![j].at = "zipped"]
            \/ job_threads' = [job_threads EXCEPT ![j] = [at |-> "except", exc |-> "Exception"]]
    /\ UNCHANGED <<crawlvars, crawl_parameters, jobs, stream, response>>

\* jobs[job_id]["status"] = "completed"
SetCompleted(j) ==
    /\ j \in DOMAIN job_threads
    /\ job_threads[j].at = "zipped"
    /\ jobs' = [jobs EXCEPT ![j].status = "completed"]
    /\ job_threads' = [job_threads EXCEPT ![j].at = "zip_path"]
    /\ UNCHANGED <<crawlvars, crawl_parameters, stream, response, calls>>

\* jobs[job_id]["zip_path"] = zip_path
SetZipPath(j) ==
    /\ j \in DOMAIN job_threads
    /\ job_threads[j].at = "zip_path"
    /\ jobs' = [jobs EXCEPT ![j].zip_path = "zip"]
    /\ job_threads' = [job_threads EXCEPT ![j].at = "filename"]
    /\ UNCHANGED <<crawlvars, crawl_parameters, stream, response, calls>>

\* jobs[job_id]["filename"] = filename (and temp_dir), the thread ends
SetFilename(j) ==
    /\ j \in DOMAIN job_threads
    /\ job_threads[j].at = "filename"
    /\ jobs' = [jobs EXCEPT ![j].filename = "name"]
    /\ job_threads' = [job_threads EXCEPT ![j].at = "done"]
    /\ UNCHANGED <<crawlvars, crawl_parameters, stream, response, calls>>

\* except Exception: jobs[job_id]["status"] = "failed"
SetFailed(j) ==
    /\ j \in DOMAIN job_threads
    /\ job_threads[j].at = "except"
    /\ jobs' = [jobs EXCEPT ![j].status = "failed"]
    /\ job_threads' = [job_threads EXCEPT ![j].at = "error"]
    /\ UNCHANGED <<crawlvars, crawl_parameters, stream, response, calls>>

\* jobs[job_id]["error"] = str(exc), the thread ends
SetError(j) ==
    /\ j \in DOMAIN job_threads
    /\ job_threads[j].at = "error"
    /\ jobs' = [jobs EXCEPT ![j].error = job_threads[j].exc]
    /\ job_threads' = [job_threads EXCEPT ![j].at = "done"]
    /\ UNCHANGED <<crawlvars, crawl_parameters, stream, response, calls>>

\* GET /crawl/status/<job_id>
CrawlStatusEndpoint(j) ==
    /\ response' = IF j \notin DOMAIN jobs
                   THEN Response("status", j, 404, Null, Null)
                   ELSE Response("status", j, 200, jobs[j].status, jobs[j].error)
    /\ UNCHANGED <<crawlvars, crawl_parameters, jobs, job_threads, stream, calls>>

\* GET /crawl/result/<job_id>; a ZIP that was written exists
CrawlResultEndpoint(j) ==
    /\ response' =
          IF j \notin DOMAIN jobs THEN Response("result", j, 404, Null, Null)
          ELSE IF jobs[j].status = "running"
          THEN Response("result", j, 202, "running", Null)
          ELSE IF jobs[j].status = "failed"
          THEN Response("result", j, 500, "failed", jobs[j].error)
          ELSE IF jobs[j].zip_path = Null
          THEN Response("result", j, 404, jobs[j].status, Null)
          ELSE Response("result", j, 200, jobs[j].status, Null)
    /\ UNCHANGED <<crawlvars, crawl_parameters, jobs, job_threads, stream, calls>>

\* POST /crawl/stream: generate() creates the queue and starts the thread
CrawlStreamEndpoint ==
    /\ stream.loop = "idle"
    /\ stream' = Stream("start", Null, Null, <<>>, "waiting", <<>>)
    /\ response' = Response("stream", 0, 200, Null, Null)
    /\ UNCHANGED <<crawlvars, crawl_parameters, jobs, job_threads, calls>>

\* run_crawl: crawl() is called
StreamCall ==
    /\ stream.thread = "start"
    /\ calls' = calls \cup {Call("stream", Accepted("stream"))}
    /\ stream' = IF ~Accepted("stream")
                 THEN [stream EXCEPT !.thread = "except", !.exc = "TypeError"]
                 ELSE [stream EXCEPT !.thread = "crawling"]
    /\ UNCHANGED <<crawlvars, crawl_parameters, jobs, job_threads, response>>

Infos(events) == Len(SelectSeq(events, LAMBDA e : e = "info"))

\* progress_callback: the crawl puts a progress message into the queue
StreamProgress ==
    /\ stream.thread = "crawling"
    /\ Infos(stream.progress_queue) + Infos(stream.emitted) < MaxProgress
    /\ stream' = [stream EXCEPT !.progress_queue = Append(@, "info")]
    /\ UNCHANGED <<crawlvars, crawl_parameters, jobs, job_threads, response, calls>>

\* crawl() returns and the ZIP is created, or crawl() raises
StreamCrawlEnd ==
    /\ stream.thread = "crawling"
    /\ \/ stream' = [stream EXCEPT !.thread = "zipped"]
       \/ stream' = [stream EXCEPT !.thread = "except", !.exc = "Exception"]
    /\ UNCHANGED <<crawlvars, crawl_parameters, jobs, job_threads, response, calls>>

\* progress_queue.put({"type": "complete", ...}), the thread ends
StreamPutComplete ==
    /\ stream.thread = "zipped"
    /\ stream' = [stream EXCEPT !.progress_queue = Append(@, "complete"),
                                !.thread = "done"]
    /\ UNCHANGED <<crawlvars, crawl_parameters, jobs, job_threads, response, calls>>

\* except Exception: crawl_error = str(exc)
StreamSetError ==
    /\ stream.thread = "except"
    /\ stream' = [stream EXCEPT !.crawl_error = stream.exc, !.thread = "error"]
    /\ UNCHANGED <<crawlvars, crawl_parameters, jobs, job_threads, response, calls>>

\* progress_queue.put({"type": "error", ...}), the thread ends
StreamPutError ==
    /\ stream.thread = "error"
    /\ stream' = [stream EXCEPT !.progress_queue = Append(@, "error"),
                                !.thread = "done"]
    /\ UNCHANGED <<crawlvars, crawl_parameters, jobs, job_threads, response, calls>>

\* update = progress_queue.get(timeout=1) returns a message: it is yielded,
\* a "complete" is followed by the "zip" event, a terminal message ends the
\* loop
StreamGet ==
    /\ stream.loop = "waiting"
    /\ stream.progress_queue # <<>>
    /\ LET update == Head(stream.progress_queue)
       IN stream' =
             [stream EXCEPT
                 !.progress_queue = Tail(@),
                 !.emitted = IF update = "complete"
                             THEN @ \o <<"complete", "zip">> ELSE Append(@, update),
                 !.loop = IF update \in {"complete", "error"} THEN "closed" ELSE "waiting"]
    /\ UNCHANGED <<crawlvars, crawl_parameters, jobs, job_threads, response, calls>>

\* progress_queue.get(timeout=1) raises queue.Empty
StreamEmpty ==
    /\ stream.loop = "waiting"
    /\ stream.progress_queue = <<>>
    /\ stream' = [stream EXCEPT !.loop = "empty"]
    /\ UNCHANGED <<crawlvars, crawl_parameters, jobs, job_threads, response, calls>>

\* except queue.Empty: a dead thread ends the loop, after an "error" event
\* when crawl_error is set; a live thread gets a heartbeat comment
StreamCheckAlive ==
    /\ stream.loop = "empty"
    /\ stream' =
          IF stream.thread # "done" THEN [stream EXCEPT !.loop = "waiting"]
          ELSE IF stream.crawl_error # Null
          THEN [stream EXCEPT !.emitted = Append(@, "error"), !.loop = "closed"]
          ELSE [stream EXCEPT !.loop = "closed"]
    /\ UNCHANGED <<crawlvars, crawl_parameters, jobs, job_threads, response, calls>>

NextApp ==
    \/ CrawlEndpoint
    \/ CrawlAsyncEndpoint
    \/ \E j \in JobIds : \/ RunCrawlJob(j)
                         \/ SetCompleted(j)
                         \/ SetZipPath(j)
                         \/ SetFilename(j)
                         \/ SetFailed(j)
                         \/ SetError(j)
                         \/ CrawlStatusEndpoint(j)
                         \/ CrawlResultEndpoint(j)
    \/ CrawlStreamEndpoint
    \/ StreamCall
    \/ StreamProgress
    \/ StreamCrawlEnd
    \/ StreamPutComplete
    \/ StreamSetError
    \/ StreamPutError
    \/ StreamGet
    \/ StreamEmpty
    \/ StreamCheckAlive

SpecApp == InitApp /\ [][NextApp]_vars

\* The run keeps taking steps while one is possible: crawl() is sequential
\* code whose blocking calls (HTTP, the service) return or time out.
FairSpec == Spec /\ WF_vars(Next)

----------------------------------------------------------------------------
(* Properties of the frontier *)

\* C1: the number of completed pages (count) never exceeds max_pages, even
\* when more links are discovered than the budget allows.
C1_CountWithinBudget == count <= max_pages

C1_Witness ==
    /\ pc = "loop"
    /\ max_pages > 0
    /\ count = max_pages
    /\ queue # <<>>

\* C2: no URL is fetched as a page more than once in a run.
C2_NoUrlFetchedTwice ==
    \A i, j \in DOMAIN fetched : i # j => fetched[i] # fetched[j]

C2_Witness ==
    \E i \in DOMAIN queue : \E j \in DOMAIN fetched : queue[i] = fetched[j]

\* C3, as claimed: at every point of a run the frontier queue holds each URL
\* at most once.
C3_QueueHoldsEachUrlOnce ==
    \A i, j \in DOMAIN queue : i # j => queue[i] # queue[j]

\* C3, amended: the queue can hold a URL several times; what the frontier
\* keeps is that link discovery only appends, at the back, URLs that are not
\* visited, and that a dequeued URL that is already visited is dropped
\* without a fetch and without being marked again.
C3_EnqueueOnlyUnvisited ==
    [][/\ pc = "dump" =>
            /\ Len(queue') >= Len(queue)
            /\ SubSeq(queue', 1, Len(queue)) = queue
            /\ \A i \in (Len(queue) + 1)..Len(queue') : queue'[i] \notin visited
       /\ (pc = "loop" /\ queue # <<>> /\ Head(queue) \in visited) =>
            /\ fetched' = fetched
            /\ visited' = visited
            /\ pc' \in {"loop", "done"}]_vars

C3_Witness ==
    /\ count > 0
    /\ \E i, j \in DOMAIN queue : i < j /\ queue[i] = queue[j] /\ queue[i] \notin visited

\* C4: every URL for which a page fetch is issued has the base URL's host or,
\* when allow_subdomains is set, a subdomain of it; a URL on an unrelated host
\* is never fetched.
C4_FetchedOnlyInScope ==
    \A i \in DOMAIN fetched :
        \/ fetched[i].host = origin_host
        \/ allow_subdomains /\ EndsWithDot(fetched[i].host, origin_host)

\* C5: with allow_subdomains false a URL on a proper subdomain of the base
\* host is not same-site, so it is never fetched.
C5_SubdomainOnlyWhenAllowed ==
    \A i \in DOMAIN fetched :
        EndsWithDot(fetched[i].host, origin_host) => allow_subdomains

\* C6: pages are processed in non-decreasing link distance from the seed set:
\* if P is completed before Q then distance(P) <= distance(Q).
C6_BfsOrder ==
    \A i, j \in DOMAIN index_entries :
        i < j => dist[index_entries[i].url] <= dist[index_entries[j].url]

C6_Witness ==
    /\ Len(index_entries) = 3
    /\ dist[index_entries[1].url] = 0
    /\ dist[index_entries[2].url] = 1
    /\ dist[index_entries[3].url] = 2

\* C7: the crawl loop always terminates, with the queue empty or the page
\* counter at max_pages.
C7_Terminates ==
    <>(pc = "done" /\ (api_key => (queue = <<>> \/ count >= max_pages)))

C7_Witness ==
    /\ pc = "done"
    /\ count > 0
    /\ count = max_pages
    /\ queue # <<>>

----------------------------------------------------------------------------
(* Properties of the retry controller *)

Last(s) == s[Len(s)]

\* C8: for one page the controller makes the initial attempt, at most 2
\* shrunk resubmissions and then exactly one final aggressive attempt, each
\* only after a size rejection: at most 4 service calls; when the final
\* attempt fails too, the page gets the fallback record.
C8_RetryCeiling ==
    /\ Len(sent) <= 4
    /\ \A j \in DOMAIN sent :
        /\ sent[j].stage = (IF j = 1 THEN "initial" ELSE IF j = 4 THEN "final" ELSE "shrunk")
        /\ j < Len(sent) => TokenLimitError(sent[j].reply)
    /\ pc \in {"call", "final"} => sent # <<>> /\ Last(sent).reply = "pending"
    /\ pc = "final" <=> (sent # <<>> /\ Last(sent).stage = "final" /\ Last(sent).reply = "pending")
    /\ (pc = "finish" /\ sent # <<>> /\ Last(sent).reply # "ok") =>
            page_schema = FallbackSchema(url)

C8_Witness ==
    /\ pc = "finish"
    /\ Len(sent) = 4
    /\ sent[4].stage = "final"
    /\ sent[4].reply = "size"
    /\ page_schema = FallbackSchema(url)

\* C9: within one page's retry sequence every attempt after the first uses a
\* text view and a section list strictly smaller than the previous attempt's
\* (stated where the previous view is not already empty).
C9_ViewsStrictlyShrink ==
    \A j \in DOMAIN sent : j > 1 =>
        /\ sent[j - 1].text_view > 0 => sent[j].text_view < sent[j - 1].text_view
        /\ sent[j - 1].sections > 0 => sent[j].sections < sent[j - 1].sections

\* C10: each resubmission after a size rejection sends a user message
\* strictly smaller than the one of the previous attempt for the page.
C10_PayloadStrictlyShrinks ==
    \A j \in DOMAIN sent : j > 1 => sent[j].payload < sent[j - 1].payload

\* C11, as claimed: the request of the final aggressive attempt carries page
\* text clipped to at most 20,000 characters and an outline of at most 15
\* sections; no larger text view or section list is still in the request.
C11_FinalRequestClipped ==
    pc = "final" =>
        \A i \in DOMAIN messages.parts :
            /\ messages.parts[i].kind = "text" => messages.parts[i].n <= AggressiveTextLen
            /\ messages.parts[i].kind = "outline_json" =>
                    messages.parts[i].n <= AggressiveSections

\* C12, as claimed: the text view placed in a request never exceeds the
\* configured budget, 60,000 characters or 80,000 when no_truncate is set.
C12_TextWithinConfiguredBudget ==
    \A j \in DOMAIN sent : sent[j].text_view <= max_chars_for_text

\* C12, amended: with no_truncate false every text part of every request is
\* at most 60,000 characters; with no_truncate set no budget applies and the
\* first request carries the whole extracted text.
C12_BudgetOnlyWhenTruncating ==
    /\ ~no_truncate =>
          /\ \A j \in DOMAIN sent : sent[j].text_view <= MaxCharsTruncate
          /\ \A i \in DOMAIN messages.parts :
                messages.parts[i].kind = "text" => messages.parts[i].n <= MaxCharsTruncate
    /\ (no_truncate /\ sent # <<>>) => sent[1].text_view = text

C12_Witness ==
    /\ pc = "call"
    /\ ~no_truncate
    /\ text > MaxCharsTruncate
    /\ Len(sent) = 1
    /\ sent[1].text_view > FaqKeepChars
    /\ sent[1].text_view < MaxCharsTruncate

\* C13: a failure of the service that is not a size-limit rejection is never
\* retried: the call that met it is the last one made for the page.
C13_NonSizeFailureNotRetried ==
    \A j \in DOMAIN sent :
        sent[j].reply \in {"rate", "error", "badjson"} => j = Len(sent)

----------------------------------------------------------------------------
(* Properties of a page's record *)

\* C14: when the service call for a page fails with a service error or with
\* a reply that is not JSON, the page's record is exactly the fallback
\* {@context, @type: WebPage, name: title, url}, the manifest receives that
\* whole record, and the run goes on to the next URL.
C14_FallbackRecordStored ==
    /\ [](  (/\ pc \in {"finish", "dump"}
             /\ sent # <<>>
             /\ Last(sent).reply \in {"error", "badjson"})
          => LET record == Obj("", <<Str("@context", <<"https://schema.org">>),
                                     Str("@type", <<"WebPage">>),
                                     Str("name", <<Title>>),
                                     Str("url", UrlStr(url))>>)
             IN /\ page_schema = record
                /\ pc = "dump" => /\ PathKey(url) \in DOMAIN manifest
                                  /\ manifest[PathKey(url)] = record)
    /\ [][/\ (pc \in {"call", "final"} /\ pc' \notin {"call", "final"}) => pc' = "finish"
          /\ pc = "finish" => pc' = "dump"
          /\ pc = "dump" => pc' = "loop"]_vars

C14_Witness ==
    /\ pc = "loop"
    /\ queue # <<>>
    /\ count < max_pages
    /\ \E key \in DOMAIN manifest :
          /\ manifest[key].k = "obj"
          /\ \E i \in DOMAIN manifest[key].items :
                manifest[key].items[i] = Str("@type", <<"WebPage">>)

\* C15: when no API key is resolvable the run is aborted before any fetch:
\* no HTTP request (robots.txt, sitemap or page) is issued.
C15_NoRequestWithoutKey ==
    ~api_key => (sitemap_requests = <<>> /\ fetched = <<>>)

\* C16: no exception raised while processing a page (extraction, file
\* writes, link extraction) ends the run: the loop goes on to the next URL.
C16_NoPageExceptionEndsRun == pc # "crashed"

\* C17: at every instant the manifest file holds the entries of all the
\* pages completed so far, so that a crash loses at most the in-flight page.
C17_FileHoldsCompletedPages ==
    \A i \in 1..count :
        /\ disk.state = "written"
        /\ index_entries[i].path \in DOMAIN disk.entries

\* C18: manifest key derivation maps path /About/ to key /About (trailing
\* slash stripped, case kept) and the path / or the empty path to key /.
C18_KeyExamples ==
    \A i \in DOMAIN index_entries :
        LET e == index_entries[i]
        IN /\ e.url.path = <<"/", "About", "/">> => e.path = <<"/", "About">>
           /\ e.url.path \in {<<>>, <<"/">>} => e.path = <<"/">>
           /\ pc \in {"loop", "dump"} => e.path \in DOMAIN manifest

C18_Witness ==
    /\ pc = "loop"
    /\ <<"/", "About">> \in DOMAIN manifest
    /\ <<"/">> \in DOMAIN manifest
    /\ \E i \in DOMAIN index_entries : index_entries[i].url.path = <<"/", "About", "/">>

\* C19: every key stored in the manifest begins with "/" and does not end
\* with "/" unless it is exactly "/".
C19_KeysWellFormed ==
    \A key \in DOMAIN manifest :
        /\ key # <<>>
        /\ Head(key) = "/"
        /\ key[Len(key)] = "/" => key = <<"/">>

RECURSIVE NoDeniedKey(_)
NoDeniedKey(v) ==
    \A i \in DOMAIN v.items :
        /\ v.k = "obj" => v.items[i].key \notin non_schema_fields
        /\ NoDeniedKey(v.items[i])

\* stored is orig with members under deny-listed keys left out, and nothing
\* else changed
RECURSIVE OnlyDeniedRemoved(_, _)
OnlyDeniedRemoved(orig, stored) ==
    /\ stored.k = orig.k
    /\ stored.key = orig.key
    /\ stored.val = orig.val
    /\ LET expected == IF orig.k = "obj"
                       THEN SelectSeq(orig.items, LAMBDA m : m.key \notin non_schema_fields)
                       ELSE orig.items
       IN /\ Len(stored.items) = Len(expected)
          /\ \A i \in DOMAIN expected : OnlyDeniedRemoved(expected[i], stored.items[i])

\* C20, as claimed: every value stored in the manifest, whatever JSON value
\* the service returned, has no deny-listed key at any depth.
C20_NoDeniedKeyStored ==
    \A key \in DOMAIN manifest : NoDeniedKey(manifest[key])

\* C20, amended: when the service returned a JSON object, the stored value
\* has no deny-listed key at any depth, in objects or in arrays, and all else
\* of the reply is kept unchanged; a reply that is not an object is stored
\* as returned.
C20_ObjectsSanitized ==
    (pc = "dump" /\ sent # <<>> /\ Last(sent).reply = "ok") =>
        LET content == Last(sent).content
            stored == manifest[PathKey(url)]
        IN IF content.k = "obj"
           THEN NoDeniedKey(stored) /\ OnlyDeniedRemoved(content, stored)
           ELSE stored = content

C20_Witness ==
    /\ pc = "dump"
    /\ sent # <<>>
    /\ Last(sent).reply = "ok"
    /\ Last(sent).content =
          Obj("", <<Arr("@type", <<Obj("", <<Str("@type", <<"v">>), Str("content", <<"v">>)>>)>>),
                    Str("content", <<"v">>)>>)
    /\ manifest[PathKey(url)] =
          Obj("", <<Arr("@type", <<Obj("", <<Str("@type", <<"v">>)>>)>>)>>)

----------------------------------------------------------------------------
(* Properties of sitemap resolution and of fetching *)

\* the targets of a sequence of requests
Targets(requests) == [i \in DOMAIN requests |-> requests[i].target]

\* C21: when no explicit sitemap is given, the sitemap candidates are tried
\* in the order robots.txt Sitemap: directives first, then /sitemap.xml, then
\* /sitemap_index.xml, with duplicates removed keeping the first occurrence.
C21_RobotsDirectivesFirst ==
    (pc # "setup" /\ sitemap_url = NoUrl) =>
        LET robots == site.web.robots
            declared == IF robots.outcome = "ok" THEN robots.directives ELSE <<>>
            claimed == Unique(declared \o <<SitemapXml, SitemapIndexXml>>, {})
        IN /\ sitemap_requests =
                 <<robots_url>> \o Targets(ResolveRequests(site.web.maps, claimed))
           /\ ResolveSeeds(site.web.maps, claimed) # <<>> =>
                 seed_urls = ResolveSeeds(site.web.maps, claimed)

\* the document the run gets at a sitemap URL is a urlset that was fetched
IsUrlset(u) ==
    LET d == DocAt(site.web.maps, u) IN d.fetch = "ok" /\ d.kind = "urlset"

\* C22: expanding a sitemap index yields as seed list the concatenation, in
\* index order, of the <loc> entries of each child sitemap in document order
\* (children of 3 and 5 entries give exactly 8 seeds).
C22_IndexExpansionInOrder ==
    LET idx == DocAt(site.web.maps, sitemap_url)
        entries == [i \in DOMAIN idx.locs |-> DocAt(site.web.maps, idx.locs[i]).locs]
        offset(i) == SumLen([j \in 1..(i - 1) |-> Len(entries[j])])
    IN (/\ pc # "setup"
        /\ sitemap_url # NoUrl
        /\ idx.fetch = "ok"
        /\ idx.kind = "index"
        /\ \A i \in DOMAIN idx.locs : IsUrlset(idx.locs[i]))
       => /\ Len(seed_urls) = offset(Len(entries) + 1)
          /\ \A i \in DOMAIN entries : \A k \in DOMAIN entries[i] :
                seed_urls[offset(i) + k] = entries[i][k]

C22_Witness ==
    /\ pc = "loop"
    /\ sitemap_url = SitemapIndexXml
    /\ Len(DocAt(site.web.maps, Child1Xml).locs) = 3
    /\ Len(DocAt(site.web.maps, Child2Xml).locs) = 5
    /\ Len(seed_urls) = 8
    /\ seed_urls = <<Page("p1"), Page("p2"), Page("p3"), Page("p4"), Page("p5"),
                     Page("p6"), Page("p7"), Page("p8")>>

\* the sitemap URLs the run tries, and whether one hands it a <loc> entry
TriedSitemaps ==
    IF sitemap_url # NoUrl THEN {sitemap_url}
    ELSE {SitemapXml, SitemapIndexXml} \cup
         (IF site.web.robots.outcome = "ok" THEN Range(site.web.robots.directives) ELSE {})

YieldsSeeds(u) ==
    LET d == DocAt(site.web.maps, u)
    IN /\ d.fetch = "ok"
       /\ \/ d.kind = "urlset" /\ d.locs # <<>>
          \/ /\ d.kind = "index"
             /\ \E i \in DOMAIN d.locs :
                   IsUrlset(d.locs[i]) /\ DocAt(site.web.maps, d.locs[i]).locs # <<>>

\* C23: when no seed URL is obtained from any sitemap source (every fetch
\* fails, is rejected, or has no entries), the frontier is seeded with
\* exactly the base URL and the run goes on into its loop.
C23_FallbackToBaseUrl ==
    [][(pc = "setup" /\ \A u \in TriedSitemaps : ~YieldsSeeds(u)) =>
          /\ seed_urls' = <<base_url>>
          /\ queue' = <<base_url>>
          /\ api_key => pc' = "loop"]_vars

C23_Witness ==
    /\ pc = "loop"
    /\ count = 0
    /\ visited = {}
    /\ queue = <<base_url>>
    /\ sitemap_url = NoUrl
    /\ \A u \in TriedSitemaps : ~YieldsSeeds(u)
    /\ \E i \in DOMAIN http_log : http_log[i].outcome = "network"
    /\ \E i \in DOMAIN http_log :
          http_log[i].outcome = "ok" /\ http_log[i].target = SitemapIndexXml

\* C24: after every HTTP request of a run, whether it succeeded, was
\* answered with an HTTP error or failed in the network, and the robots.txt
\* request included, the configured rate-limit sleep is applied before the
\* next request is sent.
C24_SleepAfterEveryRequest ==
    rate_limit > 0 =>
        \A i \in DOMAIN http_log : i < Len(http_log) => http_log[i].slept

\* C25: a failed page fetch (HTTP status >= 400, a content type that is not
\* text/html, a network error) only skips that URL: the URL is marked
\* visited, the manifest, its file and the page counter are unchanged, no
\* link is enqueued, and the run goes on with the next URL.
C25_FailedFetchOnlySkips ==
    [][(/\ pc = "loop"
        /\ Len(http_log') = Len(http_log) + 1
        /\ Last(http_log').outcome \in {"status", "content_type", "network"})
       => /\ Last(http_log').target = Head(queue)
          /\ visited' = visited \cup {Head(queue)}
          /\ manifest' = manifest
          /\ disk' = disk
          /\ count' = count
          /\ index_entries' = index_entries
          /\ queue' = Tail(queue)
          /\ pc' = "loop"]_vars

C25_Witness ==
    /\ pc = "loop"
    /\ count = 1
    /\ Len(fetched) = 2
    /\ Len(http_log) = Len(sitemap_requests) + 2
    /\ http_log[Len(http_log) - 1].outcome = "network"
    /\ http_log[Len(http_log)].outcome = "ok"
    /\ http_log[Len(http_log) - 1].target \in visited
    /\ Cardinality(DOMAIN manifest) = 1
    /\ PathKey(http_log[Len(http_log) - 1].target) \notin DOMAIN manifest

\* C26: for a site whose sitemap.xml lists 2 URLs, one of which answers 404,
\* crawled with max_pages=10 and subdomains disallowed, the run completes
\* without error and the final manifest holds exactly 1 entry, that of the
\* other page.
C26_OneEntryForTwoUrls ==
    /\ [](pc # "crashed")
    /\ <>(/\ pc = "done"
          /\ disk.state = "written"
          /\ Cardinality(DOMAIN disk.entries) = 1
          /\ \A u \in Range(seed_urls) :
                u \notin site.web.broken <=> PathKey(u) \in DOMAIN disk.entries)

C26_Witness ==
    /\ pc = "done"
    /\ max_pages = 10
    /\ ~allow_subdomains
    /\ Len(seed_urls) = 2
    /\ \E i \in DOMAIN http_log :
          http_log[i].outcome = "status" /\ http_log[i].target = seed_urls[1]
    /\ \E i \in DOMAIN http_log :
          http_log[i].outcome = "ok" /\ http_log[i].target = seed_urls[2]
    /\ Cardinality(DOMAIN disk.entries) = 1

----------------------------------------------------------------------------
(* Properties of normalize_url *)

\* C27: for every base and link, normalize_url returns either null or an
\* http(s) URL with no fragment; it returns null for a link whose resolved
\* scheme is not http or https; and applied to its own non-null result it
\* returns that result.
C27_NormalizeContract ==
    LET c == normalize_call
        resolved == urlparse(urljoin(c.base, c.link), <<>>).scheme
    IN /\ (c.done >= 1 /\ c.clean # None) =>
             /\ urlparse(c.clean, <<>>).scheme \in {<<"http">>, <<"https">>}
             /\ \A i \in DOMAIN c.clean : c.clean[i] # "#"
       /\ (c.done >= 1 /\ resolved \notin {<<"http">>, <<"https">>}) => c.clean = None
       /\ c.done = 2 => c.again = c.clean

----------------------------------------------------------------------------
(* Properties of the outline *)

\* C28: a document with the sibling nodes h1 "A", paragraph "p1", h2 "B",
\* paragraph "p2" yields exactly two sections, {A, level 1, "p1"} then
\* {B, level 2, "p2"}: a section's text does not take in a following deeper
\* heading or its body, and no further section is produced.
C28_TwoSections ==
    (/\ outline_call.done
     /\ outline_call.nodes =
           <<Elem("h1", "A"), Elem("p", "p1"), Elem("h2", "B"), Elem("p", "p2")>>)
    => outline_call.sections =
           <<Section("A", 1, <<"p1">>), Section("B", 2, <<"p2">>)>>

----------------------------------------------------------------------------
(* Properties of concurrent runs *)

\* C29: crawl runs executing concurrently share no mutable state: in every
\* interleaving a progress message emitted by a run is delivered only to
\* that run's own callback, and a run started without a callback delivers
\* to none.
C29_ProgressOnlyToOwnCallback ==
    \A d \in delivered : d.to = runs[d.from].callback

\* C30: for every request sent to the service for a page (initial attempt,
\* shrunk resubmissions, final attempt, with or without screenshot) the
\* page's prompt dump file holds exactly the system and user prompt text of
\* the request, and distinct processed pages have distinct dump files.
C30_DumpRecordsEveryRequest ==
    dump_prompts =>
       /\ pc \in {"call", "final"} =>
             /\ safe_slug_from_url(url) \in DOMAIN prompts
             /\ prompts[safe_slug_from_url(url)].system = "system"
             /\ prompts[safe_slug_from_url(url)].user = messages.parts
             /\ messages.extra = 0
       /\ \A i, j \in DOMAIN index_entries :
             i # j => safe_slug_from_url(index_entries[i].url)
                         # safe_slug_from_url(index_entries[j].url)

----------------------------------------------------------------------------
(* Properties of the API server *)

\* C38: a crawl started through any API endpoint (/crawl, /crawl/stream,
\* /crawl/async) with a valid base_url and API key actually runs: the
\* endpoint's call of crawl() is accepted by crawl's parameter list, so no
\* request fails at invocation.
C38_CallAccepted ==
    crawl_parameters = CrawlParameters =>
       /\ \A c \in calls : c.accepted
       /\ \A j \in DOMAIN jobs : jobs[j].error # "TypeError"
       /\ stream.crawl_error # "TypeError"
       /\ response.error # "TypeError"

\* C37: an async job's status is always one of running, completed, failed;
\* it starts as running, changes at most once (running to completed or
\* running to failed), terminal states are never left, and a failed job
\* always has a non-null error while a running or completed job has a null
\* error.
C37_JobStatusLifecycle ==
    /\ [](\A j \in DOMAIN jobs :
             /\ jobs[j].status \in {"running", "completed", "failed"}
             /\ jobs[j].status = "failed" => jobs[j].error # Null
             /\ jobs[j].status \in {"running", "completed"} => jobs[j].error = Null)
    /\ [][/\ \A j \in DOMAIN jobs' \ DOMAIN jobs : jobs'[j].status = "running"
          /\ \A j \in DOMAIN jobs :
                jobs'[j].status # jobs[j].status => jobs[j].status = "running"]_vars

EndsWith(events, suffix) ==
    /\ Len(events) >= Len(suffix)
    /\ SubSeq(events, Len(events) - Len(suffix) + 1, Len(events)) = suffix

----------------------------------------------------------------------------
(* Properties of the run's memory, the sitemap index, the retry payload,   *)
(* the FAQ windows and the queue                                           *)

\* the page results (schemas) the run holds in memory
RetainedResults == Cardinality(DOMAIN manifest)

\* C33: the state a run retains across pages does not grow with the number
\* of pages processed: after a page's manifest write its data, the page
\* result included, is released, so once a page has been completed a
\* further page adds no page result to what the run holds in memory.
C33_RetainedStateDoesNotGrow ==
    [][RetainedResults' > RetainedResults => count = 0]_vars

\* the document the run gets at a sitemap URL is an index that was fetched
IsIndex(u) ==
    LET d == DocAt(site.web.maps, u) IN d.fetch = "ok" /\ d.kind = "index"

\* C34: sitemap-index expansion is recursive: when a child sitemap referenced
\* by an index is itself a sitemap index, its own children are fetched and
\* their <loc> page entries are added to the seed list.
C34_NestedIndexExpanded ==
    pc # "setup" =>
       \A sm \in TriedSitemaps : IsIndex(sm) =>
          \A child \in Range(DocAt(site.web.maps, sm).locs) : IsIndex(child) =>
             \A grandchild \in Range(DocAt(site.web.maps, child).locs) :
                IsUrlset(grandchild) =>
                   /\ \E i \in DOMAIN http_log : http_log[i].target = grandchild
                   /\ Range(DocAt(site.web.maps, grandchild).locs) \subseteq Range(seed_urls)

\* C36: when truncation applies and the text contains FAQ markers, the view
\* is the leading window followed by the FAQ-marker windows beyond the
\* cutoff: every marker occurrence located after the cutoff contributes its
\* window, also when the same marker already occurs inside the leading
\* window; without any FAQ marker the view is exactly the leading window of
\* budget length.
C36_FaqWindowsBeyondCutoff ==
    LET keep_chars == Min(FaqKeepChars, max_chars_for_text - FaqReserve)
    IN (/\ truncate_call.done
        /\ truncate_call.len > max_chars_for_text
        /\ ~no_truncate)
       => IF truncate_call.occ = {}
          THEN truncate_call.view = max_chars_for_text /\ truncate_call.windows = {}
          ELSE \A o \in truncate_call.occ :
                  o.at > keep_chars => o.at \in truncate_call.windows

\* v is 70% of prev, rounded down by the conversion to an integer
CutTo70(v, prev) == 10 * v <= 7 * prev /\ 10 * v > 7 * prev - 20

\* the parts of kind k in the request placed in `messages`
PartsOfKind(k) == {i \in DOMAIN messages.parts : messages.parts[i].kind = k}

\* C35: on a size rejection within the retry ceiling the resubmitted request
\* carries the text view cut to 70% of the previous view's length and an
\* outline whose section list is cut to 70% of the previous list, and that
\* shrunk outline is the only outline in the resubmitted payload.
C35_ResubmissionCarriesShrunkViews ==
    \A j \in DOMAIN sent : (j > 1 /\ sent[j].stage = "shrunk") =>
        /\ CutTo70(sent[j].text_view, sent[j - 1].text_view)
        /\ CutTo70(sent[j].sections, sent[j - 1].sections)
        /\ (j = Len(sent) /\ pc = "call") =>
              /\ \A i \in PartsOfKind("text") : messages.parts[i].n = sent[j].text_view
              /\ PartsOfKind("text") # {}
              /\ \A i \in PartsOfKind("outline_json") :
                    messages.parts[i].n = sent[j].sections
              /\ PartsOfKind("outline_json") # {}

\* a normalized URL: absolute, http or https, without fragment
IsNormalized(t) ==
    /\ urlparse(t, <<>>).scheme \in {<<"http">>, <<"https">>}
    /\ urlparse(t, <<>>).netloc # <<>>
    /\ "#" \notin Range(t)

\* C39: every URL in the frontier queue, whether it came from the sitemaps,
\* from the base-URL fallback or from the links of a page, is a normalized
\* URL: absolute, http or https, without fragment.
C39_QueueHoldsNormalizedUrls ==
    \A i \in DOMAIN seeding.queue : IsNormalized(seeding.queue[i])

====
